---------------------------- MODULE Spec2Model ----------------------------
(***************************************************************************)
(* A model of the lexicon synthesis engine of elemental-conlang:           *)
(*   - logo_gene.py: the phoneme tables, construct_word, the compound      *)
(*     assembler, the homonym resolver and LexiconGenerator.generate();    *)
(*   - omega_alpha.py: PhoneticEngine and its LexiconGenerator.            *)
(* Wordforms, stems and phonemes are strings, as in the program.  A call   *)
(* of the random module is a nondeterministic choice among its outcomes.   *)
(***************************************************************************)
EXTENDS Naturals, Integers, Sequences, FiniteSets, TLC

(***************************************************************************)
(* Bounds of the model.                                                    *)
(***************************************************************************)
\* random.choice over a phoneme inventory draws one of its first MaxChoice entries
MaxChoice == 1
\* a vocabulary holds at most MaxSenses senses
MaxSenses == 4
\* random.shuffle yields a permutation at most MaxShuffleSwaps transpositions away
MaxShuffleSwaps == 1

None == "<None>"

(***************************************************************************)
(* logo_gene.py: the phoneme tables (module constants).                    *)
(***************************************************************************)
onset_phones ==
       ("n" :> <<"d", "z", "n", "l", "r", "dr", "dw", "gr", "gl", "gn", "gw", "k", "kr", "kl", "kw", "br", "bl", "bn", "wr">>)
    @@ ("v" :> <<"t", "p", "k", "tr", "tw", "pr", "pl", "sk", "sp", "st", "skr", "spr", "str">>)
    @@ ("a" :> <<"f", "s", "h", "ᚦ", "fl", "fr", "hl", "br", "bl", "ᚦr", "ᚦw">>)
    @@ ("e" :> <<"f", "h", "hw", "ᚦ">>)
    @@ ("r" :> <<"j", "w", "m">>)
    @@ ("s" :> <<"f", "j", "z", "ᚦ">>)
    @@ ("k" :> <<"g", "k", "kw">>)
    @@ ("i" :> <<"b", "f", "m">>)
    @@ ("d" :> <<"th", "d", "dh">>)
    @@ ("o" :> <<"h", "w">>)

nucleus_vowels ==
       ("fire" :> <<"a", "ay", "ah", "oa", "ya", "ia", "ua">>)
    @@ ("air" :> <<"e", "eo", "ei", "ae", "ee", "ey">>)
    @@ ("earth" :> <<"i", "ia", "iu", "io", "iy">>)
    @@ ("water" :> <<"u", "ui", "uu", "ua", "ue">>)

nucleus_modifiers ==
       ("n" :> <<"w", "u", "r", "l">>)
    @@ ("v" :> <<"j", "i", "n">>)
    @@ ("a" :> <<"h", "w">>)
    @@ ("e" :> <<"h">>)
    @@ ("r" :> <<"l", "r", "s">>)
    @@ ("s" :> <<"z">>)
    @@ ("k" :> <<"n", "ng">>)
    @@ ("i" :> <<"w">>)
    @@ ("d" :> <<"j">>)
    @@ ("o" :> <<"h">>)

coda ==
       ("earth" :> <<"rb", "rc", "rf", "rg", "rm", "rn", "rp,rsrst">>)
    @@ ("air" :> <<"ft", "ht", "lt", "nt", "rt", "st">>)
    @@ ("fire" :> <<"ks", "k", "z", "sk", "st">>)
    @@ ("water" :> <<"m", "l", "n", "ng", "rm", "rn">>)


(***************************************************************************)
(* Strings and sequences, as Python handles them.                          *)
(***************************************************************************)
Min(a, b) == IF a <= b THEN a ELSE b
Max(a, b) == IF a >= b THEN a ELSE b
SetMax(S) == CHOOSE m \in S : \A n \in S : n <= m
Range(seq) == {seq[n] : n \in 1..Len(seq)}

\* bool(x) of a value that is a string or None
Truthy(x) == x # None /\ x # ""

\* u in w  (substring test)
Contains(w, u) ==
    \E n \in 1..(Len(w) + 1) : n + Len(u) - 1 <= Len(w) /\ SubSeq(w, n, n + Len(u) - 1) = u

\* w.startswith(u, n0) with n0 = n - 1
StartsWith(w, u, n) == n + Len(u) - 1 <= Len(w) /\ SubSeq(w, n, n + Len(u) - 1) = u

RECURSIVE Join(_, _)
\* sep.join(parts)
Join(sep, parts) ==
    IF Len(parts) = 0 THEN ""
    ELSE IF Len(parts) = 1 THEN parts[1]
    ELSE parts[1] \o sep \o Join(sep, Tail(parts))

RECURSIVE SplitFrom(_, _, _, _)
SplitFrom(s, sep, n, start) ==
    IF n > Len(s) THEN <<SubSeq(s, start, Len(s))>>
    ELSE IF SubSeq(s, n, n) = sep
         THEN <<SubSeq(s, start, n - 1)>> \o SplitFrom(s, sep, n + 1, n + 1)
         ELSE SplitFrom(s, sep, n + 1, start)

\* s.split(sep) for a separator of one character
Split(s, sep) == SplitFrom(s, sep, 1, 1)

\* key.split('.')[0]
StemOf(key) == Split(key, ".")[1]

\* the outcomes of random.choice(inventory) that the model draws
Choices(inventory) == {inventory[n] : n \in 1..Min(MaxChoice, Len(inventory))}

(***************************************************************************)
(* Composition vectors: a dict, modelled as the sequence of its items in   *)
(* insertion order; the empty sequence is the dict {} of a record without  *)
(* a composition.                                                          *)
(***************************************************************************)
\* vector.get(k, 0)
Get(vector, k) ==
    IF \E n \in 1..Len(vector) : vector[n][1] = k
    THEN vector[CHOOSE n \in 1..Len(vector) : vector[n][1] = k][2]
    ELSE 0

RECURSIVE SortedElements(_)
\* sorted(vector.items(), key=operator.itemgetter(1), reverse=True): a stable sort
SortedElements(vector) ==
    IF Len(vector) = 0 THEN <<>>
    ELSE LET top == CHOOSE n \in 1..Len(vector) :
                        /\ \A m \in 1..Len(vector) : vector[m][2] <= vector[n][2]
                        /\ \A m \in 1..(n - 1) : vector[m][2] < vector[n][2]
         IN  <<vector[top]>> \o
             SortedElements(SubSeq(vector, 1, top - 1) \o SubSeq(vector, top + 1, Len(vector)))

Primary(vector) == SortedElements(vector)[1][1]

Secondary(vector) ==
    LET sorted_elements == SortedElements(vector)
    IN  IF Len(sorted_elements) > 1 /\ sorted_elements[2][2] > 0
        THEN sorted_elements[2][1]
        ELSE Primary(vector)

Threshold == 15

vectors_match(vec1, vec2) ==
    LET d(k) == (Get(vec1, k) - Get(vec2, k)) * (Get(vec1, k) - Get(vec2, k))
        dist == d("fire") + d("water") + d("air") + d("earth")
    IN  \* math.sqrt(dist) < threshold, on integers
        dist < Threshold * Threshold

composition_signature(composition) ==
    <<Get(composition, "fire"), Get(composition, "water"),
      Get(composition, "air"), Get(composition, "earth")>>

(***************************************************************************)
(* logo_gene.py: construct_word.                                           *)
(***************************************************************************)
\* construct_word raises: IndexError on an empty vector, KeyError on an unknown
\* role or category
construct_word_raises(pos, vector) ==
    \/ Len(vector) = 0
    \/ pos \notin DOMAIN onset_phones
    \/ Primary(vector) \notin DOMAIN nucleus_vowels
    \/ Secondary(vector) \notin DOMAIN coda

\* construct_word, were its second candidate built of the onset and the glide alone
construct_word_without_vowel(sound_onset, sound_vowel, sound_coda, sound_glide, sound_vowel_2, lookup) ==
    IF sound_onset \o sound_vowel \o sound_coda \notin lookup
    THEN sound_onset \o sound_vowel \o sound_coda
    ELSE IF sound_onset \o sound_glide \notin lookup
    THEN sound_onset \o sound_glide
    ELSE sound_onset \o sound_vowel \o sound_coda \o sound_vowel_2 \o sound_glide

\* the word construct_word returns for given draws
construct_word_with(sound_onset, sound_vowel, sound_coda, sound_glide, sound_vowel_2, lookup) ==
    IF sound_onset \o sound_vowel \o sound_coda \notin lookup
    THEN sound_onset \o sound_vowel \o sound_coda
    ELSE IF sound_onset \o sound_vowel \o sound_glide \notin lookup
    THEN sound_onset \o sound_vowel \o sound_glide
    ELSE sound_onset \o sound_vowel \o sound_coda \o sound_vowel_2 \o sound_glide

\* the set of words construct_word may return
construct_word(pos, vector, reverse_lookup) ==
    LET primary == Primary(vector)
        secondary == Secondary(vector)
    IN  { construct_word_with(o, v, c, g, v2, reverse_lookup) :
            o \in Choices(onset_phones[pos]),
            v \in Choices(nucleus_vowels[primary]),
            c \in Choices(coda[secondary]),
            g \in Choices(nucleus_modifiers[pos]),
            v2 \in Choices(nucleus_vowels[primary]) }

(***************************************************************************)
(* logo_gene.py: compounds.                                                *)
(***************************************************************************)
MinLen == 3

\* find_constituents, were a later valid split to win over an earlier one
find_constituents_last(word, stem_lookup) ==
    LET splits == { n \in MinLen..(Len(word) - MinLen) :
                      /\ SubSeq(word, 1, n) \in DOMAIN stem_lookup
                      /\ SubSeq(word, n + 1, Len(word)) \in DOMAIN stem_lookup }
    IN  \* None is the empty tuple here
        IF Len(word) < MinLen * 2 \/ splits = {} THEN <<>>
        ELSE LET n == CHOOSE s \in splits : \A t \in splits : s >= t
             IN  <<stem_lookup[SubSeq(word, 1, n)][1],
                   stem_lookup[SubSeq(word, n + 1, Len(word))][1]>>

\* stem_index is a function from stems to the sequence of their keys
find_constituents(word, stem_lookup) ==
    LET splits == { n \in MinLen..(Len(word) - MinLen) :
                      /\ SubSeq(word, 1, n) \in DOMAIN stem_lookup
                      /\ SubSeq(word, n + 1, Len(word)) \in DOMAIN stem_lookup }
    IN  \* None is the empty tuple here
        IF Len(word) < MinLen * 2 \/ splits = {} THEN <<>>
        ELSE LET n == CHOOSE s \in splits : \A t \in splits : s <= t
             IN  <<stem_lookup[SubSeq(word, 1, n)][1],
                   stem_lookup[SubSeq(word, n + 1, Len(word))][1]>>

get_best_match(word_part, stem_index) ==
    IF word_part \notin DOMAIN stem_index THEN None
    ELSE LET options == stem_index[word_part]
             nouns == SelectSeq(options, LAMBDA opt : Contains(opt, ".n."))
             verbs == SelectSeq(options, LAMBDA opt : Contains(opt, ".v."))
         IN  IF Len(nouns) > 0 THEN nouns[1]
             ELSE IF Len(verbs) > 0 THEN verbs[1]
             ELSE options[1]

RECURSIVE BestMatches(_, _)
\* the loop of CASE A: the matches of the parts, a part without a match left out
BestMatches(raw_parts, stem_index) ==
    IF Len(raw_parts) = 0 THEN <<>>
    ELSE LET match == get_best_match(raw_parts[1], stem_index)
         IN  (IF Truthy(match) THEN <<match>> ELSE <<>>)
             \o BestMatches(Tail(raw_parts), stem_index)

assemble_compound(stem, stem_index) ==
    LET parts == IF Contains(stem, "_")
                 THEN BestMatches(Split(stem, "_"), stem_index)
                 ELSE find_constituents(stem, stem_index)
    IN  \* None is the empty sequence here
        IF Len(parts) >= 2 THEN parts ELSE <<>>

(***************************************************************************)
(* logo_gene.py: the homonym resolver.  Each operator is the set of values *)
(* the function may return: a random draw is any of its outcomes, and a    *)
(* retry loop fails (None) when some draw of it can fail every time.       *)
(***************************************************************************)
\* every sound of one table
Sounds(table) == UNION {Range(table[k]) : k \in DOMAIN table}

\* the first MaxChoice sounds of every inventory of one table
FirstSounds(table) == UNION {Choices(table[k]) : k \in DOMAIN table}

\* the candidates of a retry loop that are free, and None when a draw can fail
Unused(candidates, lookup) ==
    (candidates \ lookup) \cup (IF candidates \cap lookup # {} THEN {None} ELSE {})

build_phoneme_units ==
    Sounds(onset_phones) \cup Sounds(nucleus_vowels)
        \cup Sounds(nucleus_modifiers) \cup Sounds(coda)

\* the vowel pool as a set; the lists it may be sorted into are VowelPools below
build_vowel_pool == Sounds(nucleus_vowels)

Digraphs == {u \in build_phoneme_units : Len(u) > 1}

RECURSIVE TokenizeFrom(_, _)
TokenizeFrom(word, n) ==
    LET \* the digraphs found at n, longest first; a single character when none is
        token(matching) ==
            IF matching = {} THEN 1 ELSE SetMax({Len(dg) : dg \in matching})
        rest(l) == <<SubSeq(word, n, n + l - 1)>> \o TokenizeFrom(word, n + l)
    IN  IF n > Len(word) THEN <<>>
        ELSE rest(token({dg \in Digraphs : StartsWith(word, dg, n)}))

\* longest match first: the digraphs are tried by decreasing length
tokenize_phonemes(word) == TokenizeFrom(word, 1)

SwapAt(seq, a, b) == [seq EXCEPT ![a] = seq[b], ![b] = seq[a]]

RECURSIVE Shuffles(_, _)
\* the outcomes of random.shuffle the model draws: at most k transpositions away
Shuffles(seq, k) ==
    IF k = 0 THEN {seq}
    ELSE LET prev == Shuffles(seq, k - 1)
         IN  prev \cup {SwapAt(p, a, b) : p \in prev, a \in 1..Len(seq), b \in 1..Len(seq)}

\* scramble_preserving_ends, were it to return a word of three units without
\* looking it up in the registry
scramble_preserving_ends_unchecked(word, reverse_lookup) ==
    LET scramble(tokens) ==
            IF Len(tokens) <= 2 THEN {None}
            ELSE IF Len(tokens) = 3
            THEN {Join("", tokens)}
            ELSE Unused({Join("", <<tokens[1]>> \o mid \o <<tokens[Len(tokens)]>>) :
                           mid \in Shuffles(SubSeq(tokens, 2, Len(tokens) - 1),
                                            MaxShuffleSwaps)},
                        reverse_lookup)
    IN  scramble(tokenize_phonemes(word))

scramble_preserving_ends(word, reverse_lookup) ==
    LET scramble(tokens) ==
            IF Len(tokens) <= 2 THEN {None}
            ELSE IF Len(tokens) = 3
            THEN Unused({Join("", tokens)}, reverse_lookup)
            ELSE Unused({Join("", <<tokens[1]>> \o mid \o <<tokens[Len(tokens)]>>) :
                           mid \in Shuffles(SubSeq(tokens, 2, Len(tokens) - 1),
                                            MaxShuffleSwaps)},
                        reverse_lookup)
    IN  scramble(tokenize_phonemes(word))

\* the vowels random.choice(options) draws: the first MaxChoice of each inventory
DrawnVowels(current) == FirstSounds(nucleus_vowels) \ {current}

swap_vowels_preserving_ends(word, reverse_lookup) ==
    LET swap(tokens, eligible) ==
            LET replaced(n) == {[tokens EXCEPT ![n] = v] : v \in DrawnVowels(tokens[n])}
                \* swap_count is 1, or 1 or 2 when two tokens are eligible
                single == UNION {replaced(n) : n \in eligible}
                double == UNION {{[t EXCEPT ![p[2]] = u] : u \in DrawnVowels(tokens[p[2]]),
                                                           t \in replaced(p[1])} :
                                    p \in {q \in eligible \X eligible : q[1] # q[2]}}
            IN  IF Len(tokens) <= 2 \/ eligible = {} THEN {None}
                ELSE Unused({Join("", t) : t \in single \cup double}, reverse_lookup)
        eligible_of(tokens, vowel_set) ==
            swap(tokens, {n \in 2..(Len(tokens) - 1) : tokens[n] \in vowel_set})
    IN  eligible_of(tokenize_phonemes(word), build_vowel_pool)

\* the pairs <<word or None, strategy>> resolve_homonym may return
resolve_homonym(word, reverse_lookup) ==
    LET or_swap(scrambled) ==
            {[word |-> c, how |-> "scramble"] : c \in scrambled \ {None}}
            \cup (IF None \in scrambled
                  THEN {[word |-> c, how |-> "swap"] :
                           c \in swap_vowels_preserving_ends(word, reverse_lookup)}
                  ELSE {})
    IN  or_swap(scramble_preserving_ends(word, reverse_lookup))

(***************************************************************************)
(* The inputs: the vocabulary (elemental_dict.json) and words.txt.         *)
(***************************************************************************)
\* composition dicts as build_elemental_dictionary.py writes them: earth, air, water, fire
Comp(earth, air, water, fire) ==
    <<<<"earth", earth>>, <<"air", air>>, <<"water", water>>, <<"fire", fire>>>>

Sense(key, composition) == [key |-> key, composition |-> composition, definition |-> "def"]

\* The senses a vocabulary is drawn from, in file order.  ox.n.01, ox.v.01 and
\* ox.n.02 form a chain of fuzzy-equal vectors whose ends are not fuzzy-equal;
\* ax.n.01 has the vector of ox.n.01; emu.n.01 has no composition.
MasterVocabulary ==
    << Sense("ox.n.01", Comp(0, 0, 0, 40)),
       Sense("ox.n.02", Comp(0, 0, 0, 60)),
       Sense("ox.v.01", Comp(0, 0, 0, 50)),
       Sense("ax.n.01", Comp(0, 0, 0, 40)),
       Sense("cat.n.01", Comp(0, 0, 40, 20)),
       Sense("ox_cat.n.01", Comp(40, 0, 0, 0)),
       Sense("ox_cat.v.01", Comp(0, 40, 0, 0)),
       Sense("emu.n.01", <<>>),
       Sense("ox_emu_cat.n.01", Comp(0, 40, 0, 0)) >>

RECURSIVE SeqOfSet(_)
\* the members of a set of numbers in increasing order
SeqOfSet(S) ==
    IF S = {} THEN <<>>
    ELSE LET m == CHOOSE x \in S : \A y \in S : x <= y
         IN  <<m>> \o SeqOfSet(S \ {m})

\* A vocabulary in which the base pass can run out of wordforms: three nouns of
\* fire take the three words construct_word can build from the first sounds, three
\* nouns of earth and fire take theirs, and yak.n.01 collides with every candidate.
\* yak_ox depends on it; ox_ax has two senses of one signature.
CrowdedVocabulary ==
    << Sense("ox.n.01", Comp(0, 0, 0, 40)),
       Sense("ax.n.01", Comp(0, 0, 0, 40)),
       Sense("elk.n.01", Comp(0, 0, 0, 40)),
       Sense("cat.n.01", Comp(40, 0, 0, 20)),
       Sense("cow.n.01", Comp(40, 0, 0, 20)),
       Sense("eel.n.01", Comp(40, 0, 0, 20)),
       Sense("yak.n.01", Comp(0, 0, 0, 60)),
       Sense("yak_ox.n.01", Comp(0, 40, 0, 0)),
       Sense("ox_ax.n.01", Comp(40, 0, 0, 0)),
       Sense("ox_ax.n.02", Comp(40, 0, 0, 0)) >>

\* every vocabulary of at most MaxSenses senses of MasterVocabulary, in file order,
\* and the crowded one
\* a vocabulary with a stem that is two of its stems glued together
GluedVocabulary ==
    << Sense("cat.n.01", Comp(40, 0, 0, 20)),
       Sense("cow.n.01", Comp(0, 40, 0, 20)),
       Sense("catcow.n.01", Comp(0, 0, 40, 0)) >>

\* a vocabulary with two senses of a compound whose last part is a verb
VerbTailVocabulary ==
    << Sense("cat.n.01", Comp(0, 40, 0, 0)),
       Sense("eel.v.01", Comp(0, 40, 0, 0)),
       Sense("cat_eel.n.01", Comp(0, 0, 40, 0)),
       Sense("cat_eel.n.02", Comp(0, 0, 40, 0)) >>

Vocabularies ==
    {CrowdedVocabulary, GluedVocabulary, VerbTailVocabulary} \cup
    { [n \in 1..Cardinality(S) |-> MasterVocabulary[SeqOfSet(S)[n]]] :
        S \in {T \in SUBSET (1..Len(MasterVocabulary)) : Cardinality(T) <= MaxSenses} }

\* words.txt beside logo_gene.py, as the run finds it: absent, or its lines
WordFile(exists, lines) == [read |-> TRUE, exists |-> exists, lines |-> lines]
WordLists == {WordFile(FALSE, <<>>), WordFile(TRUE, <<"ox", "ax">>),
              WordFile(TRUE, <<"ax", "ox-ax">>), WordFile(TRUE, <<"yak">>)}
Unread == [read |-> FALSE, exists |-> FALSE, lines |-> <<>>]

(***************************************************************************)
(* The state of a run of LexiconGenerator.generate().                      *)
(***************************************************************************)
VARIABLES
    prog,               \* which generator runs: "logo" (logo_gene.py) or "omega" (omega_alpha.py)
    elemental_dict,     \* the vocabulary: the sequence of its records in file order
    wordlist,           \* words.txt as the run finds it: Unread until it looks
    config,             \* omega_alpha.py: the phonology configuration
    stem_index,         \* stem -> sequence of keys
    final_lexicon,      \* the output dict: sequence of records in insertion order
    reverse_lookup,     \* the set of allocated wordforms
    word_compositions,  \* wordform -> set of composition signatures
    stem_history,       \* stem -> sequence of <<composition, wordform>>
    compound_keys,      \* the keys left to the compound pass
    existing_stems,     \* fill_missing_from_wordlist: its local set
    short_stems,        \* optimize_short_word_translations: its local set
    todo,               \* resolve_remaining_homonyms: the senses it resolves, in order
    pc,                 \* the position of generate()
    i,                  \* the index of the loop at pc
    saved,              \* how many times save() wrote the lexicon
    last,               \* the sense handled by the latest step, and how it got its wordform
    counter,            \* main.py: the file .tmp.counter
    queue,              \* main.py: self.queue, the messages not yet taken
    status_label,       \* main.py: the text of self.status_label
    monitors,           \* main.py: the threads running monitor_counter_file
    builds,             \* main.py: the build processes started with Popen
    gui                 \* main.py: the position of the GUI thread

\* the state of a generator
gen_vars == <<prog, elemental_dict, wordlist, config, stem_index, final_lexicon,
              reverse_lookup, word_compositions, stem_history, compound_keys,
              existing_stems, short_stems, todo, pc, i, saved, last>>

\* the state of the GUI of main.py
gui_vars == <<counter, queue, status_label, monitors, builds, gui>>

vars == <<gen_vars, gui_vars>>

\* no file .tmp.counter
NoFile == [exists |-> FALSE, lines |-> <<>>]

\* a generator run from the command line: no GUI
NoGui ==
    /\ counter = NoFile
    /\ queue = <<>>
    /\ status_label = ""
    /\ monitors = <<>>
    /\ builds = <<>>
    /\ gui = "none"

\* d.setdefault(k, []).append(v)
SetDefaultAppend(d, k, v) ==
    [x \in DOMAIN d \cup {k} |->
        IF x = k THEN (IF k \in DOMAIN d THEN Append(d[k], v) ELSE <<v>>) ELSE d[x]]

\* d.setdefault(k, set()).add(v)
SetDefaultAdd(d, k, v) ==
    [x \in DOMAIN d \cup {k} |->
        IF x = k THEN (IF k \in DOMAIN d THEN d[k] \cup {v} ELSE {v}) ELSE d[x]]

\* d.get(k, set())
GetSet(d, k) == IF k \in DOMAIN d THEN d[k] ELSE {}

EmptyDict == [x \in {} |-> {}]

Keys(lexicon) == {lexicon[n].key : n \in 1..Len(lexicon)}

\* the position of key in the dict
IndexOf(lexicon, key) == CHOOSE n \in 1..Len(lexicon) : lexicon[n].key = key

\* lexicon[key] = entry: a new key goes last, an old key keeps its place
DictSet(lexicon, entry) ==
    IF entry.key \in Keys(lexicon)
    THEN [lexicon EXCEPT ![IndexOf(lexicon, entry.key)] = entry]
    ELSE Append(lexicon, entry)

RECURSIVE BuildStemIndex(_, _)
\* LexiconGenerator.__init__: stem_index.setdefault(stem, []).append(key), for each key
BuildStemIndex(dict, index) ==
    IF Len(dict) = 0 THEN index
    ELSE BuildStemIndex(Tail(dict), SetDefaultAppend(index, StemOf(dict[1].key), dict[1].key))

NoSense == [key |-> "", word |-> None, how |-> "init"]

InitLogo ==
    /\ prog = "logo"
    /\ elemental_dict \in Vocabularies
    /\ wordlist = Unread
    /\ config = <<>>
    /\ stem_index = BuildStemIndex(elemental_dict, EmptyDict)
    /\ final_lexicon = <<>>
    /\ reverse_lookup = {}
    /\ word_compositions = EmptyDict
    /\ stem_history = EmptyDict
    /\ compound_keys = <<>>
    /\ existing_stems = {}
    /\ short_stems = {}
    /\ todo = <<>>
    /\ pc = "base"
    /\ i = 1
    /\ saved = 0
    /\ last = NoSense
    /\ NoGui

\* _register_word, were it to record a signature for a new wordform only
register_word_compositions_new_only(compositions, composition, word) ==
    IF word \in DOMAIN compositions THEN compositions
    ELSE SetDefaultAdd(compositions, word, composition_signature(composition))

(***************************************************************************)
(* logo_gene.py: LexiconGenerator.                                         *)
(***************************************************************************)
\* _register_word(stem, composition, word): the three parts of the registry after it
register_reverse_lookup(lookup, word) == lookup \cup {word}
register_word_compositions(compositions, composition, word) ==
    SetDefaultAdd(compositions, word, composition_signature(composition))
register_stem_history(history, stem, composition, word) ==
    SetDefaultAppend(history, stem, <<composition, word>>)

\* the first wordform of the stem's history whose vector matches, or None
reuse_word(stem, composition, history) ==
    LET first(hist, hits) ==
            IF hits = {} THEN None
            ELSE hist[CHOOSE n \in hits : \A m \in hits : n <= m][2]
        matching(hist) ==
            first(hist, {n \in 1..Len(hist) : vectors_match(composition, hist[n][1])})
    IN  IF stem \notin DOMAIN history THEN None ELSE matching(history[stem])

\* what becomes of one candidate: returned as it is, resolved, or another try
candidate_outcomes(candidate, composition, lookup, compositions) ==
    IF candidate \notin lookup
    THEN {[word |-> candidate, how |-> "fresh"]}
    ELSE IF composition_signature(composition) \in GetSet(compositions, candidate)
    THEN {[word |-> candidate, how |-> "samesig"]}
    ELSE resolve_homonym(candidate, lookup)

\* the retry loop, were it to end with the empty string where it ends with None
retry_outcomes_empty(candidates, composition, lookup, compositions) ==
    LET loop(all) ==
            {r \in all : Truthy(r.word)}
            \cup (IF \E r \in all : ~Truthy(r.word)
                  THEN {[word |-> "", how |-> "none"]} ELSE {})
    IN  loop(UNION {candidate_outcomes(c, composition, lookup, compositions) :
                       c \in candidates})

\* the results of a retry loop over the candidates it may draw: a truthy outcome of
\* some candidate, or None when some candidate can fail at every retry
retry_outcomes(candidates, composition, lookup, compositions) ==
    LET loop(all) ==
            {r \in all : Truthy(r.word)}
            \cup (IF \E r \in all : ~Truthy(r.word)
                  THEN {[word |-> None, how |-> "none"]} ELSE {})
    IN  loop(UNION {candidate_outcomes(c, composition, lookup, compositions) :
                       c \in candidates})

\* _generate_base_word: the set of <<wordform or None, how>> it may return
generate_base_word(stem, pos, composition, history, lookup, compositions) ==
    LET generate(reused) ==
            IF reused # None
            THEN {[word |-> reused, how |-> "reuse"]}
            ELSE IF construct_word_raises(pos, composition)
            THEN {[word |-> None, how |-> "raise"]}
            ELSE retry_outcomes(construct_word(pos, composition, lookup), composition,
                                lookup, compositions)
    IN  generate(reuse_word(stem, composition, history))

\* generate_base_lexicon: one iteration of its loop
GenerateBase ==
    /\ prog = "logo" /\ pc = "base" /\ i <= Len(elemental_dict)
    /\ LET data == elemental_dict[i]
           key == data.key
           stem == StemOf(key)
           pos == Split(key, ".")[2]
           composition == data.composition
       IN  IF Contains(stem, "_")
           THEN /\ compound_keys' = Append(compound_keys, key)
                /\ i' = i + 1
                /\ last' = [key |-> key, word |-> None, how |-> "compound_key"]
                /\ UNCHANGED <<final_lexicon, reverse_lookup, word_compositions,
                               stem_history, pc>>
           ELSE \E r \in generate_base_word(stem, pos, composition, stem_history,
                                              reverse_lookup, word_compositions) :
                  /\ last' = [key |-> key, word |-> r.word, how |-> r.how]
                  /\ IF r.how = "raise"
                     THEN /\ pc' = "crashed"
                          /\ UNCHANGED <<final_lexicon, reverse_lookup, word_compositions,
                                         stem_history, compound_keys, i>>
                     ELSE IF r.word = None
                     THEN /\ i' = i + 1
                          /\ UNCHANGED <<final_lexicon, reverse_lookup, word_compositions,
                                         stem_history, compound_keys, pc>>
                     ELSE /\ reverse_lookup' = register_reverse_lookup(reverse_lookup, r.word)
                          /\ word_compositions' =
                                 register_word_compositions(word_compositions, composition, r.word)
                          /\ stem_history' =
                                 register_stem_history(stem_history, stem, composition, r.word)
                          /\ final_lexicon' = DictSet(final_lexicon,
                                 [key |-> key, composition |-> composition,
                                  definition |-> data.definition, word |-> r.word])
                          /\ i' = i + 1
                          /\ UNCHANGED <<compound_keys, pc>>
    /\ UNCHANGED <<prog, elemental_dict, wordlist, config, stem_index, existing_stems,
                   short_stems, todo, saved>>
    /\ UNCHANGED gui_vars

\* the end of the base pass, were its loop to stop one entry short
StartCompoundsEarly ==
    /\ prog = "logo" /\ pc = "base" /\ i >= Len(elemental_dict)
    /\ pc' = "compounds" /\ i' = 1
    /\ UNCHANGED <<prog, elemental_dict, wordlist, config, stem_index, final_lexicon,
                   reverse_lookup, word_compositions, stem_history, compound_keys,
                   existing_stems, short_stems, todo, saved, last>>
    /\ UNCHANGED gui_vars

\* generate(): generate_base_lexicon has returned, generate_compounds starts
StartCompounds ==
    /\ prog = "logo" /\ pc = "base" /\ i > Len(elemental_dict)
    /\ pc' = "compounds" /\ i' = 1
    /\ UNCHANGED <<prog, elemental_dict, wordlist, config, stem_index, final_lexicon,
                   reverse_lookup, word_compositions, stem_history, compound_keys,
                   existing_stems, short_stems, todo, saved, last>>
    /\ UNCHANGED gui_vars

Connectors == <<"a'", "e'", "i'">>
Suffixes == <<"os", "ix", "ul", "ym">>

\* final_lexicon[key], for a key of the dict
LexiconGet(lexicon, key) == lexicon[IndexOf(lexicon, key)]

\* missing_part, were it to test the words of the entries present only
missing_part_among_entries(parts, lexicon) ==
    \E n \in 1..Len(parts) :
        /\ parts[n] \in Keys(lexicon)
        /\ ~Truthy(LexiconGet(lexicon, parts[n]).word)

\* missing_part: a constituent has no entry or no word
missing_part(parts, lexicon) ==
    \E n \in 1..Len(parts) :
        \/ parts[n] \notin Keys(lexicon)
        \/ ~Truthy(LexiconGet(lexicon, parts[n]).word)

\* part_words: the constituents' wordforms (None for a constituent without an entry,
\* which the loop never gets to use)
part_words_of(parts, lexicon) ==
    [n \in 1..Len(parts) |->
        IF parts[n] \in Keys(lexicon) THEN LexiconGet(lexicon, parts[n]).word ELSE None]

\* the compound loop, were it to register its first candidate without looking it up
compound_word_unchecked(part_words, composition, lookup, compositions) ==
    {[word |-> Join(conn, part_words), how |-> "fresh"] : conn \in Choices(Connectors)}

\* the retry loop of generate_compounds and of fill_missing_from_wordlist: the
\* first attempt joins with a connector, the later attempts add a suffix
compound_word(part_words, composition, lookup, compositions) ==
    LET joined == {Join(conn, part_words) : conn \in Choices(Connectors)}
        suffixed == {c \o suffix : c \in joined, suffix \in Choices(Suffixes)}
        \* outs: the pairs <<candidate, what becomes of it>>
        loop(first, later) ==
            {o[2] : o \in {p \in first : Truthy(p[2].word)}}
            \cup (IF \E p \in first : ~Truthy(p[2].word)
                  THEN {o[2] : o \in {p \in later : Truthy(p[2].word)}}
                       \cup (IF \E p \in later : ~Truthy(p[2].word)
                             THEN {[word |-> None, how |-> "none"]} ELSE {})
                  ELSE {})
        split(outs, attempt0) ==
            loop({p \in outs : p[1] \in attempt0}, {p \in outs : p[1] \notin attempt0})
    IN  split(UNION {{<<c, r>> : r \in candidate_outcomes(c, composition, lookup,
                                                           compositions)} :
                        c \in joined \cup suffixed},
              joined)

\* generate_compounds: one iteration of its loop
GenerateCompound ==
    /\ prog = "logo" /\ pc = "compounds" /\ i <= Len(compound_keys)
    /\ LET key == compound_keys[i]
           stem == StemOf(key)
           data == elemental_dict[CHOOSE n \in 1..Len(elemental_dict) :
                                     elemental_dict[n].key = key]
           composition == data.composition
           parts == assemble_compound(stem, stem_index)
           part_words == part_words_of(parts, final_lexicon)
       IN  IF Len(parts) = 0 \/ missing_part(parts, final_lexicon)
           THEN /\ last' = [key |-> key, word |-> None,
                            how |-> IF Len(parts) = 0 THEN "no_parts" ELSE "missing_part"]
                /\ UNCHANGED <<final_lexicon, reverse_lookup, word_compositions, stem_history>>
           ELSE \E r \in compound_word(part_words, composition, reverse_lookup,
                                         word_compositions) :
                  /\ last' = [key |-> key, word |-> r.word, how |-> r.how]
                  /\ IF r.word = None
                     THEN UNCHANGED <<final_lexicon, reverse_lookup, word_compositions,
                                      stem_history>>
                     ELSE /\ reverse_lookup' = register_reverse_lookup(reverse_lookup, r.word)
                          /\ word_compositions' =
                                 register_word_compositions(word_compositions, composition, r.word)
                          /\ stem_history' =
                                 register_stem_history(stem_history, stem, composition, r.word)
                          /\ final_lexicon' = DictSet(final_lexicon,
                                 [key |-> key, composition |-> composition,
                                  definition |-> data.definition, word |-> r.word])
    /\ i' = i + 1
    /\ UNCHANGED <<prog, elemental_dict, wordlist, config, stem_index, compound_keys,
                   existing_stems, short_stems, todo, pc, saved>>
    /\ UNCHANGED gui_vars

(***************************************************************************)
(* logo_gene.py: fill_missing_from_wordlist.                               *)
(***************************************************************************)
Lines == wordlist.lines

LowerLetters == {"a", "b", "c", "d", "e", "f", "g", "h", "i", "j", "k", "l", "m",
                 "n", "o", "p", "q", "r", "s", "t", "u", "v", "w", "x", "y", "z"}
Spaces == {" ", "-"}

RECURSIVE Cleaned(_)
\* re.sub(r"[^a-z\s_\-]", "", raw)
Cleaned(raw) ==
    IF Len(raw) = 0 THEN ""
    ELSE (IF SubSeq(raw, 1, 1) \in LowerLetters \cup Spaces \cup {"_"}
          THEN SubSeq(raw, 1, 1) ELSE "")
         \o Cleaned(SubSeq(raw, 2, Len(raw)))

RECURSIVE Underscored(_, _)
\* re.sub(r"[\s\-]+", "_", cleaned): a run of spaces and hyphens becomes one underscore
Underscored(cleaned, in_run) ==
    IF Len(cleaned) = 0 THEN ""
    ELSE IF SubSeq(cleaned, 1, 1) \in Spaces
    THEN (IF in_run THEN "" ELSE "_") \o Underscored(SubSeq(cleaned, 2, Len(cleaned)), TRUE)
    ELSE SubSeq(cleaned, 1, 1) \o Underscored(SubSeq(cleaned, 2, Len(cleaned)), FALSE)

RECURSIVE Strip(_, _)
\* s.strip(c)
Strip(s, c) ==
    IF Len(s) > 0 /\ SubSeq(s, 1, 1) = c THEN Strip(SubSeq(s, 2, Len(s)), c)
    ELSE IF Len(s) > 0 /\ SubSeq(s, Len(s), Len(s)) = c THEN Strip(SubSeq(s, 1, Len(s) - 1), c)
    ELSE s

\* the stem of a line of words.txt (the model's lines are lower case and stripped)
LineStem(raw) == Strip(Underscored(Cleaned(raw), FALSE), "_")

\* _random_composition: the draws of random.randint(0, 64) the model makes are 0 for
\* air and water and 0 or 40 for earth and fire; an all-zero draw gets a 1
RandomIntensity == 40

random_composition ==
    LET rc(air, water, earth, fire) ==
            <<<<"air", air>>, <<"water", water>>, <<"earth", earth>>, <<"fire", fire>>>>
    IN  ({rc(0, 0, e, f) : e \in {0, RandomIntensity}, f \in {0, RandomIntensity}}
            \ {rc(0, 0, 0, 0)})
        \cup {[rc(0, 0, 0, 0) EXCEPT ![n][2] = 1] : n \in 1..Min(MaxChoice, 4)}

Digits == <<"0", "1", "2", "3", "4", "5", "6", "7", "8", "9">>

\* f"{sense:02d}", for sense < 100
Format02(sense) == Digits[(sense \div 10) + 1] \o Digits[(sense % 10) + 1]

next_available_key(stem, pos, lexicon) ==
    LET sense == CHOOSE n \in 1..99 :
                     /\ stem \o "." \o pos \o "." \o Format02(n) \notin Keys(lexicon)
                     /\ \A m \in 1..(n - 1) :
                            stem \o "." \o pos \o "." \o Format02(m) \in Keys(lexicon)
    IN  stem \o "." \o pos \o "." \o Format02(sense)

\* _get_stem_word: the word of the stem's first noun key, else of its first key; None
\* when the stem has no key
get_stem_word(stem, lexicon) ==
    LET mine == SelectSeq(lexicon, LAMBDA e : StartsWith(e.key, stem \o ".", 1))
        nouns == SelectSeq(mine, LAMBDA e : Contains(e.key, ".n."))
    IN  IF Len(mine) = 0 THEN None
        ELSE IF Len(nouns) > 0 THEN nouns[1].word
        ELSE mine[1].word

\* The state the fill pass works on, as a record, so that the steps of one line
\* can follow one another inside one action.
FillState == [lexicon |-> final_lexicon, lookup |-> reverse_lookup,
              compositions |-> word_compositions, history |-> stem_history,
              index |-> stem_index, existing |-> existing_stems, ok |-> TRUE,
              how |-> "skip", word |-> None, key |-> ""]

\* the fill state, were the filler entry to get the stem for its definition
FillRegisteredDefined(st, stem, composition, r) ==
    LET key == next_available_key(stem, "n", st.lexicon)
    IN  [st EXCEPT
            !.lookup = register_reverse_lookup(st.lookup, r.word),
            !.compositions = register_word_compositions(st.compositions, composition, r.word),
            !.history = register_stem_history(st.history, stem, composition, r.word),
            !.lexicon = DictSet(st.lexicon, [key |-> key, composition |-> composition,
                                             definition |-> stem, word |-> r.word]),
            !.index = SetDefaultAppend(st.index, stem, key),
            !.existing = st.existing \cup {stem},
            !.ok = TRUE, !.how = r.how, !.word = r.word, !.key = key]

\* the fill state after a sense of the stem was registered under a new key
FillRegistered(st, stem, composition, r) ==
    LET key == next_available_key(stem, "n", st.lexicon)
    IN  [st EXCEPT
            !.lookup = register_reverse_lookup(st.lookup, r.word),
            !.compositions = register_word_compositions(st.compositions, composition, r.word),
            !.history = register_stem_history(st.history, stem, composition, r.word),
            !.lexicon = DictSet(st.lexicon, [key |-> key, composition |-> composition,
                                             definition |-> "", word |-> r.word]),
            !.index = SetDefaultAppend(st.index, stem, key),
            !.existing = st.existing \cup {stem},
            !.ok = TRUE, !.how = r.how, !.word = r.word, !.key = key]

\* _add_filler_base_entry(stem, existing_stems): the states it may leave, ok its result
add_filler_base_entry(stem, st) ==
    IF stem \in st.existing THEN {[st EXCEPT !.ok = TRUE]}
    ELSE UNION { { IF r.word = None
                   THEN [st EXCEPT !.ok = FALSE, !.how = r.how, !.word = None, !.key = ""]
                   ELSE FillRegistered(st, stem, composition, r) :
                   r \in generate_base_word(stem, "n", composition, st.history,
                                            st.lookup, st.compositions) } :
                 composition \in random_composition }

RECURSIVE FillParts(_, _)
\* the loop over the parts of a compound line: a filler entry for each unknown part
FillParts(parts, st) ==
    IF Len(parts) = 0 THEN {st}
    ELSE UNION { IF s.ok THEN FillParts(Tail(parts), s) ELSE {s} :
                 s \in IF parts[1] \in st.existing THEN {[st EXCEPT !.ok = TRUE]}
                       ELSE add_filler_base_entry(parts[1], st) }

\* the compound entry of a line whose parts all have a word
FillCompound(stem, parts, st) ==
    LET words == [n \in 1..Len(parts) |-> get_stem_word(parts[n], st.lexicon)]
    IN  IF \E n \in 1..Len(parts) : ~Truthy(words[n]) THEN {st}
        ELSE UNION { { IF r.word = None
                       THEN [st EXCEPT !.how = r.how, !.word = None, !.key = ""]
                       ELSE FillRegistered(st, stem, composition, r) :
                       r \in compound_word(words, composition, st.lookup, st.compositions) } :
                     composition \in random_composition }

\* one line of words.txt
fill_line(raw, st) ==
    LET stem == LineStem(raw)
        parts == SelectSeq(Split(stem, "_"), LAMBDA p : p # "")
    IN  IF raw = "" \/ stem = "" \/ stem \in st.existing THEN {st}
        ELSE IF Len(parts) >= 2
        THEN UNION { IF s.ok THEN FillCompound(stem, parts, s) ELSE {s} :
                     s \in FillParts(parts, st) }
        ELSE add_filler_base_entry(stem, st)

\* generate_compounds has ended; fill_missing_from_wordlist looks for words.txt
StartFill ==
    /\ prog = "logo" /\ pc = "compounds" /\ i > Len(compound_keys)
    /\ wordlist' \in WordLists
    /\ existing_stems' = IF ~wordlist'.exists THEN existing_stems
                         ELSE {StemOf(k) : k \in Keys(final_lexicon)}
    /\ pc' = "fill" /\ i' = 1
    /\ UNCHANGED <<prog, elemental_dict, config, stem_index, final_lexicon, reverse_lookup,
                   word_compositions, stem_history, compound_keys, short_stems, todo,
                   saved, last>>
    /\ UNCHANGED gui_vars

\* fill_missing_from_wordlist: one line of the file
FillLine ==
    /\ prog = "logo" /\ pc = "fill" /\ i <= Len(Lines)
    /\ \E s \in fill_line(Lines[i], FillState) :
         /\ final_lexicon' = s.lexicon
         /\ reverse_lookup' = s.lookup
         /\ word_compositions' = s.compositions
         /\ stem_history' = s.history
         /\ stem_index' = s.index
         /\ existing_stems' = s.existing
         /\ last' = [key |-> s.key, word |-> s.word, how |-> s.how]
    /\ i' = i + 1
    /\ UNCHANGED <<prog, elemental_dict, wordlist, config, compound_keys, short_stems,
                   todo, pc, saved>>
    /\ UNCHANGED gui_vars

(***************************************************************************)
(* logo_gene.py: optimize_short_word_translations.                         *)
(***************************************************************************)
ShortLen == 4

\* d.get(k, d[default])
GetOr(d, k, default) == IF k \in DOMAIN d THEN d[k] ELSE d[default]

\* the outcomes of random.choice([''] + inventory) that the model draws: the empty
\* sound and the first MaxChoice sounds of the inventory
OptionalChoices(inventory) == {""} \cup Choices(inventory)

\* _generate_word_with_length: the candidates it may return, or None
generate_word_with_length(pos, composition, min_len, max_len, lookup, compositions) ==
    LET attempts(candidates, sig) ==
            LET accepted == {c \in candidates :
                                /\ min_len <= Len(c) /\ Len(c) <= max_len
                                /\ (c \notin lookup \/ sig \in GetSet(compositions, c))}
            IN  accepted \cup (IF candidates \ accepted # {} THEN {None} ELSE {})
        draw(primary, secondary) ==
            attempts({onset \o vowel \o suffix :
                         onset \in OptionalChoices(GetOr(onset_phones, pos, "n")),
                         vowel \in Choices(GetOr(nucleus_vowels, primary, "air")),
                         suffix \in OptionalChoices(GetOr(coda, secondary, "air"))
                                    \cup OptionalChoices(GetOr(nucleus_modifiers, pos, "n"))},
                     composition_signature(composition))
        context(sorted_elements) ==
            draw(IF Len(sorted_elements) > 0 THEN sorted_elements[1][1] ELSE "air",
                 IF Len(sorted_elements) > 1 /\ sorted_elements[2][2] > 0
                 THEN sorted_elements[2][1]
                 ELSE IF Len(sorted_elements) > 0 THEN sorted_elements[1][1] ELSE "air")
    IN  context(SortedElements(composition))

\* fill_missing_from_wordlist has ended; optimize_short_word_translations reads words.txt
StartOptimize ==
    /\ prog = "logo" /\ pc = "fill" /\ i > Len(Lines)
    /\ short_stems' = IF ~wordlist.exists THEN short_stems
                      ELSE {LineStem(Lines[n]) : n \in 1..Len(Lines)}
                           \cap {stem \in {LineStem(Lines[n]) : n \in 1..Len(Lines)} :
                                   stem # "" /\ Len(stem) < ShortLen /\ ~Contains(stem, "_")}
    /\ pc' = "optimize" /\ i' = 1
    /\ UNCHANGED <<prog, elemental_dict, wordlist, config, stem_index, final_lexicon,
                   reverse_lookup, word_compositions, stem_history, compound_keys,
                   existing_stems, todo, saved, last>>
    /\ UNCHANGED gui_vars

\* optimize_short_word_translations: one iteration of its loop over final_lexicon
OptimizeEntry ==
    /\ prog = "logo" /\ pc = "optimize" /\ wordlist.exists /\ i <= Len(final_lexicon)
    /\ LET entry == final_lexicon[i]
           stem == StemOf(entry.key)
           current == entry.word
           n == Len(stem)
           min_len == Max(1, n - 1)
           max_len == n + 1
           parts == Split(entry.key, ".")
           pos == IF Len(parts) > 1 THEN parts[2] ELSE "n"
       IN  IF \/ stem \notin short_stems
              \/ ~Truthy(current)
              \/ (min_len <= Len(current) /\ Len(current) <= max_len)
           THEN /\ last' = [key |-> entry.key, word |-> current, how |-> "kept"]
                /\ UNCHANGED final_lexicon
           ELSE \E candidate \in generate_word_with_length(pos, entry.composition, min_len,
                                     max_len, reverse_lookup, word_compositions) :
                  IF Truthy(candidate)
                  THEN /\ final_lexicon' = [final_lexicon EXCEPT ![i].word = candidate]
                       /\ last' = [key |-> entry.key, word |-> candidate, how |-> "shortened"]
                  ELSE /\ last' = [key |-> entry.key, word |-> current, how |-> "kept"]
                       /\ UNCHANGED final_lexicon
    /\ i' = i + 1
    /\ UNCHANGED <<prog, elemental_dict, wordlist, config, stem_index, reverse_lookup,
                   word_compositions, stem_history, compound_keys, existing_stems,
                   short_stems, todo, pc, saved>>
    /\ UNCHANGED gui_vars

RECURSIVE RebuildCompositions(_, _)
RebuildCompositions(lexicon, compositions) ==
    IF Len(lexicon) = 0 THEN compositions
    ELSE RebuildCompositions(Tail(lexicon),
            IF Truthy(lexicon[1].word)
            THEN register_word_compositions(compositions, lexicon[1].composition,
                                            lexicon[1].word)
            ELSE compositions)

RECURSIVE RebuildHistory(_, _)
RebuildHistory(lexicon, history) ==
    IF Len(lexicon) = 0 THEN history
    ELSE RebuildHistory(Tail(lexicon),
            IF Truthy(lexicon[1].word)
            THEN register_stem_history(history, StemOf(lexicon[1].key),
                                       lexicon[1].composition, lexicon[1].word)
            ELSE history)

\* _rebuild_state_from_lexicon: the registry holds what the lexicon holds, no more
rebuild_reverse_lookup(lexicon) ==
    {lexicon[n].word : n \in {m \in 1..Len(lexicon) : Truthy(lexicon[m].word)}}

(***************************************************************************)
(* logo_gene.py: resolve_remaining_homonyms.                               *)
(***************************************************************************)
RECURSIVE Distinct(_)
\* the values of a sequence in the order of their first occurrence (the keys of a
\* dict filled in that order)
Distinct(seq) ==
    IF Len(seq) = 0 THEN <<>>
    ELSE <<seq[1]>> \o Distinct(SelectSeq(Tail(seq), LAMBDA x : x # seq[1]))

RECURSIVE Concat(_)
Concat(seqs) == IF Len(seqs) = 0 THEN <<>> ELSE seqs[1] \o Concat(Tail(seqs))

\* The senses the sweep hands to the resolver, with the word they share, in the
\* order of its loops: per shared word, the senses of every stem but the first
\* whose signature is not one of the first stem's.
sweep_todo(lexicon) ==
    LET worded == SelectSeq(lexicon, LAMBDA e : Truthy(e.word))
        words == Distinct([n \in 1..Len(worded) |-> worded[n].word])
        group(w) ==
            LET keyed == SelectSeq(worded, LAMBDA e : e.word = w)
                stems == Distinct([n \in 1..Len(keyed) |-> StemOf(keyed[n].key)])
                kept_sigs == {composition_signature(keyed[n].composition) :
                                 n \in {m \in 1..Len(keyed) : StemOf(keyed[m].key) = stems[1]}}
                others == SelectSeq(keyed, LAMBDA e :
                              /\ StemOf(e.key) # stems[1]
                              /\ composition_signature(e.composition) \notin kept_sigs)
                \* the other stems' keys, stem by stem
                by_stem == Concat([s \in 1..Len(stems) |->
                              SelectSeq(others, LAMBDA e : StemOf(e.key) = stems[s])])
            IN  IF Len(keyed) <= 1 \/ Len(stems) <= 1 THEN <<>>
                ELSE [n \in 1..Len(by_stem) |-> [key |-> by_stem[n].key, word |-> w]]
    IN  Concat([n \in 1..Len(words) |-> group(words[n])])

\* optimize_short_word_translations ends with _rebuild_state_from_lexicon (when
\* words.txt exists); then resolve_remaining_homonyms groups the lexicon by word
FinishOptimize ==
    /\ prog = "logo" /\ pc = "optimize" /\ (~wordlist.exists \/ i > Len(final_lexicon))
    /\ IF wordlist.exists
       THEN /\ reverse_lookup' = rebuild_reverse_lookup(final_lexicon)
            /\ word_compositions' = RebuildCompositions(final_lexicon, EmptyDict)
            /\ stem_history' = RebuildHistory(final_lexicon, EmptyDict)
       ELSE UNCHANGED <<reverse_lookup, word_compositions, stem_history>>
    /\ todo' = sweep_todo(final_lexicon)
    /\ pc' = "sweep" /\ i' = 1
    /\ UNCHANGED <<prog, elemental_dict, wordlist, config, stem_index, final_lexicon,
                   compound_keys, existing_stems, short_stems, saved, last>>
    /\ UNCHANGED gui_vars

\* the sweep's write, were it to store what the resolver returned, None included
sweep_write_unguarded(lexicon, key, new_word) ==
    [lexicon EXCEPT ![IndexOf(lexicon, key)].word = new_word]

\* the lexicon after the sweep handled a sense: a new word replaces the old one
sweep_write(lexicon, key, new_word) ==
    IF Truthy(new_word)
    THEN [lexicon EXCEPT ![IndexOf(lexicon, key)].word = new_word]
    ELSE lexicon

\* the sweep, were it to try a sense again until the resolver finds a word for it
SweepStepUntilResolved ==
    /\ prog = "logo" /\ pc = "sweep" /\ i <= Len(todo)
    /\ \E r \in resolve_homonym(todo[i].word, reverse_lookup) :
         /\ final_lexicon' = sweep_write(final_lexicon, todo[i].key, r.word)
         /\ reverse_lookup' = IF Truthy(r.word) THEN reverse_lookup \cup {r.word}
                              ELSE reverse_lookup
         /\ last' = [key |-> todo[i].key, word |-> r.word, how |-> r.how]
         /\ i' = IF Truthy(r.word) THEN i + 1 ELSE i
    /\ UNCHANGED <<prog, elemental_dict, wordlist, config, stem_index, word_compositions,
                   stem_history, compound_keys, existing_stems, short_stems, todo, pc, saved>>
    /\ UNCHANGED gui_vars

\* resolve_remaining_homonyms: one sense of another stem sharing a word
SweepStep ==
    /\ prog = "logo" /\ pc = "sweep" /\ i <= Len(todo)
    /\ \E r \in resolve_homonym(todo[i].word, reverse_lookup) :
         /\ final_lexicon' = sweep_write(final_lexicon, todo[i].key, r.word)
         /\ reverse_lookup' = IF Truthy(r.word) THEN reverse_lookup \cup {r.word}
                              ELSE reverse_lookup
         /\ last' = [key |-> todo[i].key, word |-> r.word, how |-> r.how]
    /\ i' = i + 1
    /\ UNCHANGED <<prog, elemental_dict, wordlist, config, stem_index, word_compositions,
                   stem_history, compound_keys, existing_stems, short_stems, todo, pc, saved>>
    /\ UNCHANGED gui_vars

\* print_stats, save, return
Save ==
    /\ prog = "logo" /\ pc = "sweep" /\ i > Len(todo)
    /\ saved' = saved + 1
    /\ pc' = "done"
    /\ UNCHANGED <<prog, elemental_dict, wordlist, config, stem_index, final_lexicon,
                   reverse_lookup, word_compositions, stem_history, compound_keys,
                   existing_stems, short_stems, todo, i, last>>
    /\ UNCHANGED gui_vars

NextLogo ==
    \/ GenerateBase \/ StartCompounds \/ GenerateCompound
    \/ StartFill \/ FillLine
    \/ StartOptimize \/ OptimizeEntry \/ FinishOptimize
    \/ SweepStep \/ Save

Init == InitLogo

Next == NextLogo

\* a run of logo_gene.py: LexiconGenerator(...).generate()
Spec == Init /\ [][Next]_vars

(***************************************************************************)
(* The claims about logo_gene.py.                                          *)
(***************************************************************************)
\* the positions of the output lexicon
Senses == 1..Len(final_lexicon)

Finished == prog = "logo" /\ pc = "done"

\* two senses of different stems whose vectors are not fuzzy-equal
Unrelated(a, b) ==
    /\ StemOf(final_lexicon[a].key) # StemOf(final_lexicon[b].key)
    /\ ~vectors_match(final_lexicon[a].composition, final_lexicon[b].composition)

\* two senses of one stem whose vectors are fuzzy-equal
Synonyms(a, b) ==
    /\ StemOf(final_lexicon[a].key) = StemOf(final_lexicon[b].key)
    /\ vectors_match(final_lexicon[a].composition, final_lexicon[b].composition)

\* C1: after a full run of generate() in logo_gene.py, two senses of the output
\* lexicon whose stems differ and whose composition vectors are not fuzzy-equal
\* have different wordforms.
C1_GlobalUniqueness ==
    Finished =>
        \A a, b \in Senses :
            Unrelated(a, b) => final_lexicon[a].word # final_lexicon[b].word

\* C2: two senses of the same stem whose composition vectors are fuzzy-equal and
\* that both have a wordform have the same wordform in the final lexicon.
C2_SynonymReuse ==
    Finished =>
        \A a, b \in Senses :
            Synonyms(a, b) => final_lexicon[a].word = final_lexicon[b].word

RECURSIVE Iteration(_)
\* one order in which a set may be iterated
Iteration(S) ==
    IF S = {} THEN <<>>
    ELSE LET first(x) == <<x>> \o Iteration(S \ {x})
         IN  first(CHOOSE x \in S : TRUE)

Reverse(seq) == [n \in 1..Len(seq) |-> seq[Len(seq) + 1 - n]]

\* sorted(pool, key=len, reverse=True): a stable sort of the set's iteration order
sorted_by_len(iteration) ==
    Concat([n \in 1..SetMax({Len(x) : x \in Range(iteration)}) |->
               SelectSeq(iteration, LAMBDA x :
                   Len(x) = SetMax({Len(y) : y \in Range(iteration)}) + 1 - n)])

\* _build_vowel_pool: the lists it may return; Python iterates a set of strings in
\* an order that changes from one process to the next (two orders are drawn here)
VowelPools ==
    {sorted_by_len(Iteration(build_vowel_pool)),
     sorted_by_len(Reverse(Iteration(build_vowel_pool)))}

\* swap_vowels_preserving_ends, first attempt, for a word with one eligible token:
\* the candidate when random.choice(options) picks the option at index draw
first_swap(word, vowel_pool, draw) ==
    LET swap(tokens) ==
            LET choose(n, options) ==
                    Join("", [tokens EXCEPT ![n] = options[((draw - 1) % Len(options)) + 1]])
                at(n) == choose(n, SelectSeq(vowel_pool, LAMBDA v : v # tokens[n]))
            IN  at(CHOOSE n \in 2..(Len(tokens) - 1) : tokens[n] \in Range(vowel_pool))
    IN  swap(tokenize_phonemes(word))

\* the sweep is about to resolve a word of three tokens with a vowel in the middle:
\* scramble_preserving_ends returns None and swap_vowels_preserving_ends runs
SweepSwaps ==
    /\ prog = "logo" /\ pc = "sweep" /\ i <= Len(todo)
    /\ Len(tokenize_phonemes(todo[i].word)) = 3
    /\ tokenize_phonemes(todo[i].word)[2] \in build_vowel_pool
    /\ todo[i].word \in reverse_lookup

\* C3: two runs of generate() on the same vocabulary and configuration that make
\* the same pseudo-random draws produce the same output: where both have reached
\* the same state and draw the same numbers, they write the same wordform.
C3_Determinism ==
    SweepSwaps =>
        \A pool_1, pool_2 \in VowelPools : \A draw \in 1..MaxChoice :
            LET written(word_1, word_2) ==
                    (word_1 \notin reverse_lookup /\ word_2 \notin reverse_lookup)
                        => word_1 = word_2
            IN  written(first_swap(todo[i].word, pool_1, draw),
                        first_swap(todo[i].word, pool_2, draw))

\* the step of the compound pass that handles compound_keys[i]
CompoundStep == prog = "logo" /\ pc = "compounds" /\ pc' = "compounds" /\ i' = i + 1

\* the constituents assemble_compound resolves for the compound handled next
CompoundParts == assemble_compound(StemOf(compound_keys[i]), stem_index)

\* the compound pass has just handled a sense, and gave it a wordform
CompoundAssigned ==
    /\ prog = "logo" /\ pc = "compounds" /\ i > 1
    /\ last.key = compound_keys[i - 1]
    /\ Truthy(last.word)

\* C5: whenever the compound pass registers a wordform for a compound sense, every
\* constituent sense that assemble_compound resolved for it already has a wordform
\* in the lexicon.
C5_CompoundDependencyOrdering ==
    [][ (CompoundStep /\ Truthy(last'.word)) =>
            \A n \in 1..Len(CompoundParts) :
                /\ CompoundParts[n] \in Keys(final_lexicon)
                /\ Truthy(LexiconGet(final_lexicon, CompoundParts[n]).word) ]_vars

\* a compound sense got a wordform although an earlier sense of the base pass, a
\* constituent of another compound, got none
C5_Witness ==
    /\ CompoundAssigned
    /\ \E n \in 1..Len(elemental_dict) :
          /\ ~Contains(elemental_dict[n].key, "_")
          /\ elemental_dict[n].key \notin Keys(final_lexicon)

\* the constituents' wordforms in order, joined by a connector (or by nothing) and
\* followed by a suffix (or by nothing)
BuiltFromParts(word, part_words) ==
    \E conn \in Range(Connectors) \cup {""}, suffix \in Range(Suffixes) \cup {""} :
        word = Join(conn, part_words) \o suffix

BaseAssigned ==
    /\ prog = "logo" /\ pc = "base" /\ i > 1
    /\ last.key = elemental_dict[i - 1].key
    /\ Truthy(last.word)

\* the word begins with an onset of the inventory of the role of the key
BeginsWithRoleOnset(word, key) ==
    \E onset \in Range(onset_phones[Split(key, ".")[2]]) : StartsWith(word, onset, 1)

\* the word contains a vowel of the inventory of the primary category of the vector
ContainsPrimaryVowel(word, composition) ==
    \E vowel \in Range(nucleus_vowels[Primary(composition)]) : Contains(word, vowel)

\* C7: every simple-stem sense that the base pass assigns a wordform gets one that
\* begins with an onset of the inventory of its role and contains a vowel of the
\* inventory of its primary category, also after collision resolution.
C7_OnsetAndPrimaryVowel ==
    BaseAssigned =>
        /\ BeginsWithRoleOnset(last.word, last.key)
        /\ ContainsPrimaryVowel(last.word, elemental_dict[i - 1].composition)

\* C7, amended: a wordform the base pass builds for a sense (not one it reuses from
\* an earlier sense of the stem) begins with an onset of the role; it contains a
\* vowel of the primary category unless the resolver substituted its vowels.
C7_OnsetAndPrimaryVowelWhenBuilt ==
    (BaseAssigned /\ last.how # "reuse") =>
        /\ BeginsWithRoleOnset(last.word, last.key)
        /\ last.how # "swap" =>
               ContainsPrimaryVowel(last.word, elemental_dict[i - 1].composition)

\* the base pass gave a sense a wordform that came out of collision resolution
C7_Witness == BaseAssigned /\ last.how = "scramble"

\* C8: at every step of a run the set of allocated wordforms only grows.
C8_RegistryMonotonic == [][reverse_lookup \subseteq reverse_lookup']_vars

\* the senses of the lexicon that hold the word
Holders(word) == {n \in Senses : final_lexicon[n].word = word}

\* C9: a wordform registered under two different composition signatures got them
\* from senses of one stem (synonym reuse); no wordform is registered for senses
\* of two stems under different signatures.
C9_SignaturesFromReuseOnly ==
    \A word \in DOMAIN word_compositions :
        \A a, b \in Holders(word) :
            LET sig_a == composition_signature(final_lexicon[a].composition)
                sig_b == composition_signature(final_lexicon[b].composition)
            IN  (sig_a # sig_b /\ {sig_a, sig_b} \subseteq word_compositions[word])
                    => StemOf(final_lexicon[a].key) = StemOf(final_lexicon[b].key)

\* C10: once a sense has a wordform in the lexicon, no later step changes or
\* removes it.
C10_WrittenOnce ==
    [][ \A n \in Senses :
            /\ n <= Len(final_lexicon')
            /\ final_lexicon'[n].key = final_lexicon[n].key
            /\ final_lexicon'[n].word = final_lexicon[n].word ]_vars

\* C10, amended: a sense that has a wordform is never removed from the lexicon, and
\* its wordform is changed by no step but those of the short-word optimisation and
\* of the residual sweep, which replace it by another wordform.
C10_RewrittenOnlyByOptimizeAndSweep ==
    [][ \A n \in Senses :
            /\ n <= Len(final_lexicon')
            /\ final_lexicon'[n].key = final_lexicon[n].key
            /\ Truthy(final_lexicon'[n].word)
            /\ final_lexicon'[n].word # final_lexicon[n].word
                   => pc \in {"optimize", "sweep"} ]_vars

\* the residual sweep has just failed to find another wordform for a sense, which
\* keeps the one it shares
C10_Witness ==
    /\ prog = "logo" /\ pc = "sweep" /\ i > 1
    /\ last.key = todo[i - 1].key /\ ~Truthy(last.word)
    /\ \E n \in Senses : final_lexicon[n].key = last.key /\ Truthy(final_lexicon[n].word)

\* the stem of the key is a simple stem (no underscore)
SimpleStem(key) == ~Contains(StemOf(key), "_")

\* the keys of the vocabulary
VocabularyKeys == {elemental_dict[n].key : n \in 1..Len(elemental_dict)}

\* the keys the step adds to the lexicon
AddedKeys == Keys(final_lexicon') \ Keys(final_lexicon)

\* the lexicon is persisted once, by the step that ends the sweep
PersistedOnceAfterSweep ==
    /\ saved' # saved =>
           /\ saved = 0 /\ saved' = 1
           /\ pc = "sweep" /\ i > Len(todo) /\ pc' = "done"
    /\ (pc' = "done" /\ pc # "done") => saved' = 1

\* the sweep starts after the compound pass has handled every compound key
SweepAfterCompounds ==
    /\ (pc = "compounds" /\ pc' # "compounds") => i > Len(compound_keys)
    /\ (pc' = "sweep" /\ pc # "sweep") => pc \notin {"base", "compounds"}
    /\ \A k \in AddedKeys : ~SimpleStem(k) => pc \in {"compounds", "fill"}

VocabularyRecord(key) ==
    elemental_dict[CHOOSE n \in 1..Len(elemental_dict) : elemental_dict[n].key = key]

\* the output record has a key of the vocabulary and echoes its record
EchoesVocabulary(entry) ==
    /\ entry.key \in VocabularyKeys
    /\ entry.composition = VocabularyRecord(entry.key).composition
    /\ entry.definition = VocabularyRecord(entry.key).definition

\* the stems fill_missing_from_wordlist may add: the stems of the lines of words.txt
\* and the parts of its compound lines
FillerStems ==
    UNION {{LineStem(Lines[n])} \cup Range(Split(LineStem(Lines[n]), "_")) :
              n \in 1..Len(Lines)}

\* the output record is one fill_missing_from_wordlist makes: a noun key of a stem of
\* words.txt, one of the compositions _random_composition draws, no definition
FillerRecord(entry) ==
    /\ wordlist.exists
    /\ StemOf(entry.key) \in FillerStems
    /\ Split(entry.key, ".")[2] = "n"
    /\ entry.composition \in random_composition
    /\ entry.definition = ""

BaseHandlesNoComposition ==
    /\ prog = "logo" /\ pc = "base" /\ i <= Len(elemental_dict)
    /\ SimpleStem(elemental_dict[i].key)
    /\ Len(elemental_dict[i].composition) = 0

\* C15: the base pass processes a sense record without a composition without
\* raising, and the run continues with the remaining senses.
C15_MissingCompositionTolerated ==
    [][ BaseHandlesNoComposition => (pc' = "base" /\ i' = i + 1) ]_vars

\* a step of the base pass or of the compound pass in which word construction and
\* collision resolution both failed: every retry was used up
ResolutionFailed ==
    /\ prog = "logo" /\ pc \in {"base", "compounds"}
    /\ last' # last /\ last'.how = "none"

\* the failure is soft: no wordform, no entry, registry and stem history as they
\* were, and the pass goes on to the next sense
SoftFailure ==
    /\ ~Truthy(last'.word)
    /\ final_lexicon' = final_lexicon /\ last'.key \notin Keys(final_lexicon')
    /\ reverse_lookup' = reverse_lookup
    /\ word_compositions' = word_compositions
    /\ stem_history' = stem_history
    /\ pc' = pc /\ i' = i + 1

Terminated == pc \in {"done", "crashed"}

\* the number of entries the pass at hand goes through
PassLength ==
    CASE pc = "base" -> Len(elemental_dict)
      [] pc = "compounds" -> Len(compound_keys)
      [] pc = "fill" -> Len(Lines)
      [] pc = "optimize" -> Len(final_lexicon)
      [] pc = "sweep" -> Len(todo)
      [] OTHER -> 0

\* the place of a pass in generate()
PhaseRank(p) ==
    CASE p = "base" -> 1
      [] p = "compounds" -> 2
      [] p = "fill" -> 3
      [] p = "optimize" -> 4
      [] p = "sweep" -> 5
      [] OTHER -> 6

\* a step that handles one entry of the pass and moves to the next, the pass
\* keeping its length
VisitsNextEntry == pc' = pc /\ i <= PassLength /\ i' = i + 1 /\ PassLength' = PassLength

\* a step that ends the pass: a later pass begins, or generate() returns or raises
LeavesPass == PhaseRank(pc') > PhaseRank(pc)

ExplicitPartUnmatched ==
    \E part \in Range(Split(StemOf(compound_keys[i]), "_")) : part \notin DOMAIN stem_index

\* C21: for a delimited compound stem with a part that has no sense in the stem
\* index, assemble_compound returns no decomposition, and the compound pass leaves
\* the sense without a wordform.
C21_ExplicitSplitFails ==
    [][ (CompoundStep /\ ExplicitPartUnmatched) => last'.how = "no_parts" ]_vars

\* the stem is compound: it has the delimiter, or it is two known stems of at least
\* MinLen characters each, glued
IsCompoundStem(stem) ==
    \/ Contains(stem, "_")
    \/ \E n \in MinLen..(Len(stem) - MinLen) :
           /\ SubSeq(stem, 1, n) \in DOMAIN stem_index
           /\ SubSeq(stem, n + 1, Len(stem)) \in DOMAIN stem_index

\* a step of the base pass on a sense whose stem is compound
BaseStepOnCompound ==
    /\ prog = "logo" /\ pc = "base" /\ i <= Len(elemental_dict)
    /\ IsCompoundStem(StemOf(elemental_dict[i].key))

\* C22: the base pass gives no wordform to a sense whose stem is compound, delimited
\* or glued, and hands the sense over to the compound pass.
C22_CompoundStemsLeftToCompoundPass ==
    [][ BaseStepOnCompound =>
            /\ ~Truthy(last'.word)
            /\ elemental_dict[i].key \in Range(compound_keys') ]_vars

\* a step of a pass in which resolve_homonym returned a wordform
ResolverReturned ==
    pc' = pc /\ i' = i + 1 /\ last'.how \in {"scramble", "swap"} /\ Truthy(last'.word)

\* C24: resolve_homonym returns none or a wordform that is not in the registry; in
\* the sweep, where the input word is in the registry, a returned wordform differs
\* from the input word.
C24_ResolverReturnsUnregistered ==
    [][ ResolverReturned =>
            /\ last'.word \notin reverse_lookup
            /\ (prog = "logo" /\ pc = "sweep") => last'.word # todo[i].word ]_vars

\* the sweep has just given a sense a wordform returned by resolve_homonym
C24_Witness ==
    /\ prog = "logo" /\ pc = "sweep" /\ i > 1
    /\ last.how \in {"scramble", "swap"} /\ Truthy(last.word)
    /\ todo[i - 1].word \in reverse_lookup

\* a step of the sweep: resolve_homonym is called with a wordform of the registry
ResolverCalledOnCollision ==
    /\ prog = "logo" /\ pc = "sweep" /\ pc' = "sweep" /\ i' = i + 1
    /\ todo[i].word \in reverse_lookup

\* C26: called with a word that is in the registry, the resolver always returns
\* a wordform, which is not in the registry (a suffix being its last resort).
C26_ResolverAlwaysResolves ==
    [][ ResolverCalledOnCollision =>
            Truthy(last'.word) /\ last'.word \notin reverse_lookup ]_vars

\* the wordform a sense of the lexicon held when the sweep started: the sweep
\* rewrites the senses of todo only
StartWord(n) ==
    IF \E t \in 1..Len(todo) : todo[t].key = final_lexicon[n].key
    THEN todo[CHOOSE t \in 1..Len(todo) : todo[t].key = final_lexicon[n].key].word
    ELSE final_lexicon[n].word

\* the first sense, in lexicon order, that held the wordform when the sweep started
FirstHolder(w) ==
    CHOOSE n \in Senses : StartWord(n) = w /\ \A m \in Senses : StartWord(m) = w => n <= m

\* the sense held, when the sweep started, a wordform whose first holder is a sense
\* of another stem
SharedWithEarlierStem(n) ==
    /\ Truthy(StartWord(n))
    /\ StemOf(final_lexicon[n].key) # StemOf(final_lexicon[FirstHolder(StartWord(n))].key)

\* C27: after the sweep, of the senses that shared a wordform across stems when
\* the sweep started, those of the first stem still hold it and every sense of
\* another stem holds a different wordform.
C27_SweepSeparatesStems ==
    Finished =>
        \A n \in Senses :
            IF SharedWithEarlierStem(n)
            THEN final_lexicon[n].word # StartWord(n)
            ELSE final_lexicon[n].word = StartWord(n)

\* a step of the base pass that resolves the sense by synonym reuse
ReuseStep ==
    /\ prog = "logo" /\ pc = "base" /\ pc' = "base" /\ i' = i + 1
    /\ last'.how = "reuse"

\* C28: synonym reuse allocates nothing: the set of allocated wordforms and the
\* wordform-to-signatures mapping are after the step what they were before.
C28_ReuseLeavesRegistry ==
    [][ ReuseStep =>
            /\ reverse_lookup' = reverse_lookup
            /\ word_compositions' = word_compositions ]_vars

\* C28, amended: synonym reuse allocates no wordform: the set of allocated
\* wordforms is unchanged and the reused wordform was in it; the mapping changes at
\* the reused wordform only, which gains the signature of the sense's composition.
C28_ReuseAllocatesNoWordform ==
    [][ ReuseStep =>
            /\ reverse_lookup' = reverse_lookup
            /\ last'.word \in reverse_lookup
            /\ DOMAIN word_compositions' = DOMAIN word_compositions
            /\ \A w \in DOMAIN word_compositions :
                   word_compositions'[w] =
                       IF w = last'.word
                       THEN word_compositions[w]
                                \cup {composition_signature(elemental_dict[i].composition)}
                       ELSE word_compositions[w] ]_vars

\* a sense has just been given the wordform of an earlier sense of its stem whose
\* composition is close to its own but not the same
C28_Witness ==
    /\ prog = "logo" /\ pc = "base" /\ i > 1 /\ last.how = "reuse"
    /\ Cardinality(word_compositions[last.word]) > 1

\* a phase of generate() has just completed: the next one is at its first entry,
\* or generate() has returned
PhaseCompleted ==
    /\ prog = "logo"
    /\ \/ pc \in {"compounds", "fill", "optimize", "sweep"} /\ i = 1
       \/ pc = "done"

\* the registry records the sense: its wordform is allocated and the mapping holds
\* the signature of its composition under the wordform
Registered(entry) ==
    /\ entry.word \in reverse_lookup
    /\ entry.word \in DOMAIN word_compositions
    /\ composition_signature(entry.composition) \in word_compositions[entry.word]

\* C29: after every completed phase of generate(), the sweep included, every sense
\* of the lexicon that holds a wordform is recorded in the registry: the wordform
\* is allocated and the mapping has the sense's signature under it.
C29_RegistryAgreesWithLexicon ==
    PhaseCompleted =>
        \A n \in Senses : Truthy(final_lexicon[n].word) => Registered(final_lexicon[n])

(***************************************************************************)
(* omega_alpha.py: PhoneticEngine.  The engine is the record of the fields *)
(* __init__ reads from the configuration.  A constraint pattern is a       *)
(* literal string, which re.search finds where the word contains it.       *)
(***************************************************************************)
\* d.get(k, default), for a dict modelled as a function
GetD(d, k, default) == IF k \in DOMAIN d THEN d[k] ELSE default

\* _get_default_config: the configuration when phonetic_dictionary.json is missing
get_default_config ==
    [onset_phones |-> [n |-> <<"d", "z", "n", "l", "r">>, v |-> <<"t", "p", "k">>],
     nucleus_vowels |-> [fire |-> <<"a", "ay">>, air |-> <<"e", "eo">>,
                         earth |-> <<"i", "ia">>, water |-> <<"u", "ua">>],
     coda |-> [fire |-> <<"z", "st">>, air |-> <<"th", "ft">>,
               earth |-> <<"rd", "rn">>, water |-> <<"m", "l">>],
     nucleus_modifiers |-> [n |-> <<"w", "r">>, v |-> <<"j", "n">>],
     templates |-> [default |-> <<"ONK", "ONM">>]]

\* a phonetic_dictionary.json: the default inventories, templates for verbs, its own
\* morphology, one rejection constraint and one spelling rule
ConstrainedConfig ==
    [templates |-> [default |-> <<"ONK", "ONM">>, v |-> <<"ON", "O-N">>],
     morphology |-> [connectors |-> <<"a'">>, suffixes |-> <<"os">>,
                     compound_strategies |-> <<"suffix", "both", "plain">>],
     constraints |-> <<[pattern |-> "az", reason |-> "no az"]>>,
     orthography |-> <<[from |-> "th", to |-> "t"]>>]
    @@ get_default_config

\* a phonetic_dictionary.json without inventories for verbs and without templates
SparseConfig ==
    [onset_phones |-> [n |-> <<"d", "z">>],
     nucleus_vowels |-> [air |-> <<"e", "eo">>],
     coda |-> [air |-> <<"th", "ft">>],
     morphology |-> [connectors |-> <<>>]]

\* the contents a phonetic_dictionary.json that json.load accepts may have
Configs == {ConstrainedConfig, SparseConfig}

\* phonetic_dictionary.json as open() and json.load find it: missing, not JSON
\* (malformed), not UTF-8 (undecodable: a file saved as UTF-16), or a JSON object
ConfigFile(kind, content) == [kind |-> kind, content |-> content]
ConfigFiles ==
    {ConfigFile(kind, EmptyDict) : kind \in {"missing", "malformed", "undecodable"}}
    \cup {ConfigFile("json", content) : content \in Configs}

\* _load_config raises: it catches FileNotFoundError and json.JSONDecodeError only,
\* and the UnicodeDecodeError of f.read() is neither
load_config_raises(file) == file.kind = "undecodable"

\* _load_config: the file's content, or the default configuration
load_config(file) ==
    IF file.kind = "json" THEN file.content ELSE get_default_config

\* PhoneticEngine.__init__
PhoneticEngine(loaded) ==
    [onset_phones |-> GetD(loaded, "onset_phones", EmptyDict),
     nucleus_vowels |-> GetD(loaded, "nucleus_vowels", EmptyDict),
     nucleus_modifiers |-> GetD(loaded, "nucleus_modifiers", EmptyDict),
     coda |-> GetD(loaded, "coda", EmptyDict),
     templates |-> GetD(loaded, "templates", [default |-> <<"ONK", "ONM", "ONK NM">>]),
     morphology |-> GetD(loaded, "morphology",
                         [connectors |-> <<"a'", "e'", "i'">>,
                          suffixes |-> <<"os", "ix", "ul", "ym">>,
                          compound_strategies |-> <<"connector", "suffix", "both">>]),
     constraints |-> GetD(loaded, "constraints", <<>>),
     orthography |-> GetD(loaded, "orthography", <<>>)]

\* PhoneticEngine(config_path): the engine, with the kind of file it was given; no
\* engine when _load_config raises
new_engine(file) ==
    IF load_config_raises(file) THEN [path |-> file.kind, raised |-> TRUE]
    ELSE [path |-> file.kind, raised |-> FALSE] @@ PhoneticEngine(load_config(file))

\* _is_valid: no constraint pattern is found in the word
is_valid(word, constraints) ==
    \A n \in 1..Len(constraints) : ~Contains(word, constraints[n].pattern)

RECURSIVE Replace(_, _, _)
\* s.replace(src, dest): every occurrence of src, found from the left and not
\* overlapping, becomes dest; an empty src puts dest around every character
Replace(s, src, dest) ==
    IF src = ""
    THEN IF s = "" THEN dest
         ELSE dest \o SubSeq(s, 1, 1) \o Replace(SubSeq(s, 2, Len(s)), src, dest)
    ELSE IF Len(s) < Len(src) THEN s
    ELSE IF SubSeq(s, 1, Len(src)) = src
         THEN dest \o Replace(SubSeq(s, Len(src) + 1, Len(s)), src, dest)
         ELSE SubSeq(s, 1, 1) \o Replace(SubSeq(s, 2, Len(s)), src, dest)

RECURSIVE apply_orthography(_, _)
\* PhoneticEngine._apply_orthography: the rules applied in order, each to the
\* outcome of the one before
apply_orthography(word, orthography) ==
    IF Len(orthography) = 0 THEN word
    ELSE apply_orthography(Replace(word, orthography[1].from, orthography[1].to),
                           Tail(orthography))

\* _resolve_symbol: the sounds a template character may become
resolve_symbol(symbol, pos, primary, secondary, engine) ==
    LET sounds(options) == IF Len(options) = 0 THEN {""} ELSE Choices(options)
    IN  IF symbol = "O"
        THEN sounds(GetD(engine.onset_phones, pos, GetD(engine.onset_phones, "n", <<>>)))
        ELSE IF symbol = "N"
        THEN sounds(GetD(engine.nucleus_vowels, primary,
                         GetD(engine.nucleus_vowels, "air", <<>>)))
        ELSE IF symbol = "K"
        THEN sounds(GetD(engine.coda, secondary, GetD(engine.coda, "air", <<>>)))
        ELSE IF symbol = "M"
        THEN sounds(GetD(engine.nucleus_modifiers, pos,
                         GetD(engine.nucleus_modifiers, "n", <<>>)))
        ELSE IF symbol = " " THEN {""}
        ELSE {symbol}

RECURSIVE generate_from_template(_, _, _, _, _)
\* _generate_from_template: the words a template may become
generate_from_template(template, pos, primary, secondary, engine) ==
    IF Len(template) = 0 THEN {""}
    ELSE {sound \o rest :
             sound \in resolve_symbol(SubSeq(template, 1, 1), pos, primary, secondary,
                                      engine),
             rest \in generate_from_template(SubSeq(template, 2, Len(template)), pos,
                                             primary, secondary, engine)}

\* the templates of the role, else the default ones, else ONK
template_list(pos, templates) ==
    LET or_fallback(list) == IF Len(list) = 0 THEN <<"ONK">> ELSE list
    IN  or_fallback(GetD(templates, pos, GetD(templates, "default", <<>>)))

\* construct_word, were an attempt to return its candidate without looking it up
\* in the registry
omega_construct_word_unchecked(pos, vector, lookup, engine) ==
    LET build(primary, secondary) ==
            LET attempts(candidates) ==
                    {[word |-> c, how |-> "template"] :
                        c \in {d \in candidates : Len(d) > 1}}
                    \cup (IF \E d \in candidates : ~(Len(d) > 1 /\ d \notin lookup)
                          THEN {[word |-> c, how |-> "fallback"] :
                                   c \in generate_from_template("ONKNM", pos, primary,
                                                                secondary, engine)}
                          ELSE {})
            IN  attempts(UNION {generate_from_template(template, pos, primary, secondary,
                                                       engine) :
                                   template \in Choices(template_list(pos, engine.templates))})
        context(sorted_elements) ==
            build(IF Len(sorted_elements) > 0 THEN sorted_elements[1][1] ELSE "air",
                  IF Len(sorted_elements) > 1 /\ sorted_elements[2][2] > 0
                  THEN sorted_elements[2][1]
                  ELSE IF Len(sorted_elements) > 0 THEN sorted_elements[1][1] ELSE "air")
    IN  context(SortedElements(vector))

\* construct_word (the second definition, which replaces the first): the words it
\* may return, from a template or from the fallback template
omega_construct_word(pos, vector, lookup, engine) ==
    LET build(primary, secondary) ==
            LET attempts(candidates) ==
                    {[word |-> c, how |-> "template"] :
                        c \in {d \in candidates : Len(d) > 1 /\ d \notin lookup}}
                    \cup (IF \E d \in candidates : ~(Len(d) > 1 /\ d \notin lookup)
                          THEN {[word |-> c, how |-> "fallback"] :
                                   c \in generate_from_template("ONKNM", pos, primary,
                                                                secondary, engine)}
                          ELSE {})
            IN  attempts(UNION {generate_from_template(template, pos, primary, secondary,
                                                       engine) :
                                   template \in Choices(template_list(pos, engine.templates))})
        context(sorted_elements) ==
            build(IF Len(sorted_elements) > 0 THEN sorted_elements[1][1] ELSE "air",
                  IF Len(sorted_elements) > 1 /\ sorted_elements[2][2] > 0
                  THEN sorted_elements[2][1]
                  ELSE IF Len(sorted_elements) > 0 THEN sorted_elements[1][1] ELSE "air")
    IN  context(SortedElements(vector))

\* PhoneticEngine.assemble_compound, for parts that are not empty: the compounds it
\* may return, and "raise" where random.choice raises on an empty list
omega_assemble_compound(parts, morphology) ==
    LET assemble(connectors, suffixes) ==
            LET glued == {Join(glue, parts) : glue \in Choices(connectors)}
                tails == IF Len(suffixes) = 0 THEN {""} ELSE Choices(suffixes)
                by(strategy) ==
                    IF strategy \in {"connector", "both"} /\ Len(connectors) = 0
                    THEN {[word |-> None, how |-> "raise"]}
                    ELSE IF strategy = "connector"
                    THEN {[word |-> base, how |-> strategy] : base \in glued}
                    ELSE IF strategy = "suffix"
                    THEN {[word |-> Join("", parts) \o tail, how |-> strategy] :
                             tail \in tails}
                    ELSE IF strategy = "both"
                    THEN {[word |-> base \o tail, how |-> strategy] :
                             base \in glued, tail \in tails}
                    ELSE {[word |-> Join("", parts), how |-> "plain"]}
            IN  UNION {by(strategy) :
                          strategy \in Range(GetD(morphology, "compound_strategies",
                                                  <<"connector">>))}
    IN  assemble(GetD(morphology, "connectors", <<"'">>), GetD(morphology, "suffixes", <<>>))

MinScramble == 4

\* list(word)
Chars(word) == [n \in 1..Len(word) |-> SubSeq(word, n, n)]

\* _scramble_internal: the words it may return, or None
scramble_internal(word) ==
    IF Len(word) < MinScramble THEN {None}
    ELSE {SubSeq(word, 1, 1) \o Join("", mid) \o SubSeq(word, Len(word), Len(word)) :
             mid \in Shuffles(Chars(SubSeq(word, 2, Len(word) - 1)), MaxShuffleSwaps)}

Vowels == <<"a", "e", "i", "o", "u">>

\* _swap_vowel: one vowel replaced by another; None when no coin flip says so
swap_vowel(word) ==
    {None} \cup
    UNION {{SubSeq(word, 1, n - 1) \o v \o SubSeq(word, n + 1, Len(word)) :
               v \in Choices(SelectSeq(Vowels, LAMBDA x : x # SubSeq(word, n, n)))} :
             n \in {m \in 1..Len(word) : SubSeq(word, m, m) \in Range(Vowels)}}

\* PhoneticEngine.resolve_homonym: the words it may return, or None
omega_resolve_homonym(word, lookup) ==
    LET free(candidates, how) ==
            {[word |-> c, how |-> how] : c \in candidates \ ({None, ""} \cup lookup)}
        taken(candidates) == candidates \cap ({None, ""} \cup lookup) # {}
        strategy_b(swapped) ==
            free(swapped, "swap")
            \cup (IF taken(swapped) THEN {[word |-> None, how |-> "none"]} ELSE {})
        strategy_a(scrambled) ==
            free(scrambled, "scramble")
            \cup (IF taken(scrambled) THEN strategy_b(swap_vowel(word)) ELSE {})
    IN  strategy_a(scramble_internal(word))

(***************************************************************************)
(* omega_alpha.py: LexiconGenerator.                                       *)
(***************************************************************************)
\* __init__: compound_keys = [k for k in elemental_dict if '_' in k]
omega_compound_keys(dict) ==
    LET compounds == SelectSeq(dict, LAMBDA data : Contains(data.key, "_"))
    IN  [n \in 1..Len(compounds) |-> compounds[n].key]

InitOmega ==
    /\ prog = "omega"
    /\ elemental_dict \in Vocabularies
    /\ wordlist = Unread
    /\ config \in {new_engine(file) : file \in ConfigFiles}
    /\ stem_index = BuildStemIndex(elemental_dict, EmptyDict)
    /\ final_lexicon = <<>>
    /\ reverse_lookup = {}
    /\ word_compositions = EmptyDict
    /\ stem_history = EmptyDict
    /\ compound_keys = omega_compound_keys(elemental_dict)
    /\ existing_stems = {}
    /\ short_stems = {}
    /\ todo = <<>>
    /\ pc = IF config.raised THEN "crashed" ELSE "base"
    /\ i = 1
    /\ saved = 0
    /\ last = NoSense
    /\ NoGui

\* _generate_base: one iteration of its loop
OmegaGenerateBase ==
    /\ prog = "omega" /\ pc = "base" /\ i <= Len(elemental_dict)
    /\ LET data == elemental_dict[i]
           parts == Split(data.key, ".")
       IN  IF Contains(data.key, "_")
           THEN /\ last' = [key |-> data.key, word |-> None, how |-> "compound_key"]
                /\ UNCHANGED <<final_lexicon, reverse_lookup>>
           ELSE \E r \in omega_construct_word(IF Len(parts) > 1 THEN parts[2] ELSE "n",
                                               data.composition, reverse_lookup, config) :
                  /\ last' = [key |-> data.key, word |-> r.word, how |-> r.how]
                  /\ IF ~Truthy(r.word)
                     THEN UNCHANGED <<final_lexicon, reverse_lookup>>
                     ELSE /\ final_lexicon' = DictSet(final_lexicon,
                                 [key |-> data.key, composition |-> data.composition,
                                  definition |-> data.definition, word |-> r.word])
                          /\ reverse_lookup' = reverse_lookup \cup {r.word}
    /\ i' = i + 1
    /\ UNCHANGED <<prog, elemental_dict, wordlist, config, stem_index, word_compositions,
                   stem_history, compound_keys, existing_stems, short_stems, todo, pc,
                   saved>>
    /\ UNCHANGED gui_vars

OmegaStartCompounds ==
    /\ prog = "omega" /\ pc = "base" /\ i > Len(elemental_dict)
    /\ pc' = "compounds" /\ i' = 1
    /\ UNCHANGED <<prog, elemental_dict, wordlist, config, stem_index, final_lexicon,
                   reverse_lookup, word_compositions, stem_history, compound_keys,
                   existing_stems, short_stems, todo, saved, last>>
    /\ UNCHANGED gui_vars

\* _find_compound_parts: the first key of each part's stem; None (the empty
\* sequence) when a part has no stem
find_compound_parts(stem, index) ==
    LET resolve(raw_parts) ==
            IF \A n \in 1..Len(raw_parts) : raw_parts[n] \in DOMAIN index
            THEN [n \in 1..Len(raw_parts) |-> index[raw_parts[n]][1]]
            ELSE <<>>
    IN  resolve(Split(stem, "_"))

\* what becomes of the compound assemble_compound returned
omega_compound_outcomes(compound, lookup) ==
    IF compound.how = "raise" \/ compound.word \notin lookup THEN {compound}
    ELSE omega_resolve_homonym(compound.word, lookup)

\* _generate_compounds: one iteration of its loop
OmegaGenerateCompound ==
    /\ prog = "omega" /\ pc = "compounds" /\ i <= Len(compound_keys)
    /\ LET key == compound_keys[i]
           data == elemental_dict[CHOOSE n \in 1..Len(elemental_dict) :
                                     elemental_dict[n].key = key]
           handle(parts_keys) ==
               IF Len(parts_keys) = 0 \/ \E n \in 1..Len(parts_keys) :
                                            parts_keys[n] \notin Keys(final_lexicon)
               THEN /\ last' = [key |-> key, word |-> None,
                                how |-> IF Len(parts_keys) = 0 THEN "no_parts"
                                        ELSE "missing_part"]
                    /\ i' = i + 1
                    /\ UNCHANGED <<final_lexicon, reverse_lookup, pc>>
               ELSE \E compound \in omega_assemble_compound(
                                       part_words_of(parts_keys, final_lexicon),
                                       config.morphology) :
                    \E r \in omega_compound_outcomes(compound, reverse_lookup) :
                      /\ last' = [key |-> key, word |-> r.word, how |-> r.how]
                      /\ IF r.how = "raise"
                         THEN /\ pc' = "crashed"
                              /\ UNCHANGED <<final_lexicon, reverse_lookup, i>>
                         ELSE IF r.word = None
                         THEN /\ i' = i + 1
                              /\ UNCHANGED <<final_lexicon, reverse_lookup, pc>>
                         ELSE /\ final_lexicon' = DictSet(final_lexicon,
                                     [key |-> key, composition |-> data.composition,
                                      definition |-> data.definition, word |-> r.word])
                              /\ reverse_lookup' = reverse_lookup \cup {r.word}
                              /\ i' = i + 1
                              /\ UNCHANGED pc
       IN  handle(find_compound_parts(StemOf(key), stem_index))
    /\ UNCHANGED <<prog, elemental_dict, wordlist, config, stem_index, word_compositions,
                   stem_history, compound_keys, existing_stems, short_stems, todo, saved>>
    /\ UNCHANGED gui_vars

\* save, at the end of generate
OmegaSave ==
    /\ prog = "omega" /\ pc = "compounds" /\ i > Len(compound_keys)
    /\ saved' = saved + 1
    /\ pc' = "done"
    /\ UNCHANGED <<prog, elemental_dict, wordlist, config, stem_index, final_lexicon,
                   reverse_lookup, word_compositions, stem_history, compound_keys,
                   existing_stems, short_stems, todo, i, last>>
    /\ UNCHANGED gui_vars

NextOmega == OmegaGenerateBase \/ OmegaStartCompounds \/ OmegaGenerateCompound \/ OmegaSave

\* a run of omega_alpha.py: LexiconGenerator(...).generate()
SpecOmega == InitOmega /\ [][NextOmega]_vars

(***************************************************************************)
(* The claims about omega_alpha.py.                                        *)
(***************************************************************************)
\* C4: no wordform that the omega_alpha generator stores in the output lexicon
\* matches a pattern of the configured constraints.
C4_ConstraintEnforcement ==
    prog = "omega" =>
        \A n \in Senses : is_valid(final_lexicon[n].word, config.constraints)

\* the fields PhoneticEngine.__init__ sets, of an engine
EngineFields(engine) ==
    [k \in {"onset_phones", "nucleus_vowels", "nucleus_modifiers", "coda", "templates",
             "morphology", "constraints", "orthography"} |-> engine[k]]

\* the run was given a configuration file that is missing or cannot be parsed
ConfigurationAbsent ==
    prog = "omega" /\ config.path \in {"missing", "malformed", "undecodable"}

\* C13: when the configuration file is missing or cannot be parsed, PhoneticEngine
\* is constructed without raising, from the built-in default configuration, and
\* generation proceeds.
C13_ConfigurationAbsenceNotFatal ==
    ConfigurationAbsent =>
        /\ ~config.raised
        /\ EngineFields(config) = PhoneticEngine(get_default_config)
        /\ pc # "crashed"

\* the roles and categories a key or a vector may name: those of the inventories,
\* and one that no inventory has
Roles == {"n", "v", "x"}
Categories == {"fire", "air", "earth", "water", "void"}
Slots == {"O", "N", "K", "M"}

\* C14: for every role and every category, also those absent from the
\* configuration, expanding an O, N, K or M slot yields a phoneme of an inventory
\* (never the empty string of an empty inventory) and never raises.
C14_LookupsNeverEmpty ==
    \A pos \in Roles, primary \in Categories, secondary \in Categories :
        /\ prog = "logo" =>
               ~construct_word_raises(pos, <<<<primary, 2>>, <<secondary, 1>>>>)
        /\ (prog = "omega" /\ ~config.raised) =>
               \A symbol \in Slots :
                   "" \notin resolve_symbol(symbol, pos, primary, secondary, config)

\* the longest word the rewrite rules are applied to
MaxLetters == 3

RECURSIVE WordsOver(_, _)
\* the words of at most n letters over an alphabet
WordsOver(alphabet, n) ==
    IF n = 0 THEN {""}
    ELSE LET shorter == WordsOver(alphabet, n - 1)
         IN  shorter \cup {w \o l : w \in shorter, l \in alphabet}

\* the letters of the configured rules' patterns
RuleLetters(orthography) ==
    UNION {{SubSeq(orthography[n].from, m, m) : m \in 1..Len(orthography[n].from)} :
               n \in 1..Len(orthography)}

\* C18: applying the configured rewrite rules to a word they were already
\* applied to changes nothing, for every word.
C18_OrthographyIdempotent ==
    (prog = "omega" /\ ~config.raised) =>
        \A w \in WordsOver(RuleLetters(config.orthography), MaxLetters) :
            apply_orthography(apply_orthography(w, config.orthography), config.orthography)
                = apply_orthography(w, config.orthography)

\* a step of the base pass of omega_alpha.py that stores a wordform for a sense
OmegaBaseStores ==
    /\ prog = "omega" /\ pc = "base" /\ pc' = "base"
    /\ Keys(final_lexicon') # Keys(final_lexicon)

\* C19: every wordform the base pass of omega_alpha.py stores for a sense was
\* not in the registry immediately before it was stored.
C19_BaseStoresUnregistered == [][ OmegaBaseStores => last'.word \notin reverse_lookup ]_vars

\* the candidates an attempt of construct_word can draw for a sense: the
\* expansions of the templates of its role in the context of its composition
AttemptCandidates(data) ==
    LET pos == IF Len(Split(data.key, ".")) > 1 THEN Split(data.key, ".")[2] ELSE "n"
        sorted_elements == SortedElements(data.composition)
        primary == IF Len(sorted_elements) > 0 THEN sorted_elements[1][1] ELSE "air"
        secondary == IF Len(sorted_elements) > 1 /\ sorted_elements[2][2] > 0
                     THEN sorted_elements[2][1] ELSE primary
    IN  UNION {generate_from_template(template, pos, primary, secondary, config) :
                  template \in Choices(template_list(pos, config.templates))}

\* an attempt fails on a candidate shorter than two characters or in the registry
AttemptFails(candidate) == ~(Len(candidate) > 1) \/ candidate \in reverse_lookup

\* a step of the base pass in which construct_word returned from its attempt loop
ReturnsFromLoop == prog = "omega" /\ pc = "base" /\ pc' = "base" /\ last'.how = "template"

\* a step of the base pass in which construct_word returned its fallback
ReturnsFallback == prog = "omega" /\ pc = "base" /\ pc' = "base" /\ last'.how = "fallback"

\* C20: construct_word of omega_alpha.py returns from its attempt loop only a
\* candidate of at least two characters that is not in the registry, and returns
\* the fallback only when the attempts can all have failed: some candidate of the
\* role's templates is too short or registered.
C20_ConstructWordReturns ==
    [][ /\ ReturnsFromLoop =>
               /\ Len(last'.word) >= 2 /\ last'.word \notin reverse_lookup
               /\ last'.word \in AttemptCandidates(elemental_dict[i])
        /\ ReturnsFallback =>
               \E candidate \in AttemptCandidates(elemental_dict[i]) : AttemptFails(candidate)
      ]_vars

\* construct_word has returned its fallback for a sense of the base pass whose
\* templates were exhausted by the senses before it
C20_Witness ==
    /\ prog = "omega" /\ pc = "base" /\ last.how = "fallback" /\ Truthy(last.word)
    /\ Cardinality(reverse_lookup) > 1

(***************************************************************************)
(* find_constituents of logo_gene.py, called on its own: generate() never  *)
(* reaches it (the compound pass holds delimited stems only), so its       *)
(* inputs are drawn here and one action applies it.                        *)
(***************************************************************************)
\* the keys the stem lookups are built from, in file order
StemPool == <<"abc.v.01", "abc.n.01", "abcd.n.01", "def.n.01", "defg.n.01", "efg.n.01">>

\* the vocabularies of keys of the pool, each in file order
StemVocabularies ==
    { [n \in 1..Cardinality(S) |-> Sense(StemPool[SeqOfSet(S)[n]], Comp(0, 0, 0, 40))] :
        S \in SUBSET (1..Len(StemPool)) }

\* the stems find_constituents is called with
GluedStems == <<"abcdefg", "abcdef", "abcde", "defgabc">>

InitConstituents ==
    /\ prog = "constituents"
    /\ elemental_dict \in StemVocabularies
    /\ wordlist = Unread
    /\ config = <<>>
    /\ stem_index = BuildStemIndex(elemental_dict, EmptyDict)
    /\ final_lexicon = <<>>
    /\ reverse_lookup = {}
    /\ word_compositions = EmptyDict
    /\ stem_history = EmptyDict
    /\ compound_keys = <<>>
    /\ existing_stems = {}
    /\ short_stems = {}
    /\ todo = <<>>
    /\ pc = "split"
    /\ i = 1
    /\ saved = 0
    /\ last = NoSense
    /\ NoGui

\* CASE B of assemble_compound: constituents = find_constituents(stem, stem_index)
FindConstituents ==
    /\ prog = "constituents" /\ pc = "split" /\ i <= Len(GluedStems)
    /\ compound_keys' = find_constituents(GluedStems[i], stem_index)
    /\ last' = [key |-> GluedStems[i], word |-> None, how |-> "split"]
    /\ i' = i + 1
    /\ UNCHANGED <<prog, elemental_dict, wordlist, config, stem_index, final_lexicon,
                   reverse_lookup, word_compositions, stem_history, existing_stems,
                   short_stems, todo, pc, saved>>
    /\ UNCHANGED gui_vars

NextConstituents == FindConstituents

\* calls of find_constituents, one stem after the other
SpecConstituents == InitConstituents /\ [][NextConstituents]_vars

\* splitting the stem after n characters gives two known stems of at least MinLen
\* characters each
ValidSplit(s, n) ==
    /\ MinLen <= n /\ n <= Len(s) - MinLen
    /\ SubSeq(s, 1, n) \in DOMAIN stem_index
    /\ SubSeq(s, n + 1, Len(s)) \in DOMAIN stem_index

\* find_constituents has just returned for the stem last.key
SplitDone == prog = "constituents" /\ last.how = "split"

\* C23: find_constituents returns the constituents of the smallest valid split
\* index of the stem, and none when the stem has no valid split (in particular
\* when it is shorter than twice MinLen).
C23_ImplicitSplitFirst ==
    SplitDone =>
        IF \E n \in 1..Len(last.key) : ValidSplit(last.key, n)
        THEN \E n \in 1..Len(last.key) :
                 /\ ValidSplit(last.key, n)
                 /\ \A m \in 1..(n - 1) : ~ValidSplit(last.key, m)
                 /\ compound_keys = <<stem_index[SubSeq(last.key, 1, n)][1],
                                      stem_index[SubSeq(last.key, n + 1, Len(last.key))][1]>>
        ELSE compound_keys = <<>>

\* find_constituents returned the earlier of two valid splits
C23_Witness ==
    /\ SplitDone /\ Len(compound_keys) = 2
    /\ Cardinality({n \in 1..Len(last.key) : ValidSplit(last.key, n)}) > 1

\* the wordforms assemble_compound of omega_alpha.py can give the compound at hand
\* that are in the registry: the words its resolve_homonym is called with
CollidingCompounds ==
    {compound.word :
        compound \in omega_assemble_compound(
                         part_words_of(find_compound_parts(StemOf(compound_keys[i]),
                                                           stem_index), final_lexicon),
                         config.morphology)} \cap reverse_lookup

\* the output begins and ends with the units the word begins and ends with
EdgesKept(word, out, first, final) ==
    /\ StartsWith(out, first, 1)
    /\ StartsWith(out, final, Len(out) - Len(final) + 1)
    /\ Len(out) >= Len(first) + Len(final)

\* the edges of a word of logo_gene.py are its first and last phoneme tokens
LogoEdgesKept(word, out) ==
    EdgesKept(word, out, tokenize_phonemes(word)[1],
              tokenize_phonemes(word)[Len(tokenize_phonemes(word))])

\* the edges of a word of omega_alpha.py are its first and last characters
OmegaEdgesKept(word, out) ==
    EdgesKept(word, out, SubSeq(word, 1, 1), SubSeq(word, Len(word), Len(word)))

\* C25: a wordform returned by the resolver, from the scramble or from the vowel
\* substitution, begins with the first unit and ends with the last unit of the
\* word the resolver was called with.
C25_ResolverKeepsEdges ==
    [][ ResolverReturned =>
            /\ (prog = "logo" /\ pc = "sweep") => LogoEdgesKept(todo[i].word, last'.word)
            /\ (prog = "omega" /\ pc = "compounds") =>
                   \E word \in CollidingCompounds : OmegaEdgesKept(word, last'.word) ]_vars

(***************************************************************************)
(* main.py: ConlangGUI.  The GUI thread runs one callback at a time; the   *)
(* threads started by start_monitoring_thread and the build processes      *)
(* started with Popen run beside it.  build_dictionary.py, the process of  *)
(* launch_build_words, is not among the sources: what it writes to         *)
(* .tmp.counter is left open, any line that monitor_counter_file tells     *)
(* apart.  build_elemental_dictionary.py opens the anchor file, words.txt  *)
(* and its output, and never .tmp.counter.                                 *)
(***************************************************************************)

\* builds launched in one session of the GUI
MaxBuilds == 2

\* messages waiting on self.queue
MaxQueue == 2

\* lines a word build adds to .tmp.counter
MaxLines == 2

\* completion_msg when self.output_file is None, as start_monitoring_thread() leaves it
completion_msg == "Completed!"

\* lines[-1].strip() of content.split('\n'): '' for an empty file
last_line(file) == IF Len(file.lines) = 0 THEN "" ELSE file.lines[Len(file.lines)]

\* subprocess.Popen(cmd)
Popen(kind) == [kind |-> kind, running |-> TRUE, wrote_done |-> FALSE]

\* ConlangGUI.__init__, in a directory without .tmp.counter
InitGui ==
    /\ prog = "gui"
    /\ elemental_dict = <<>>
    /\ wordlist = Unread
    /\ config = <<>>
    /\ stem_index = EmptyDict
    /\ final_lexicon = <<>>
    /\ reverse_lookup = {}
    /\ word_compositions = EmptyDict
    /\ stem_history = EmptyDict
    /\ compound_keys = <<>>
    /\ existing_stems = {}
    /\ short_stems = {}
    /\ todo = <<>>
    /\ pc = "mainloop"
    /\ i = 1
    /\ saved = 0
    /\ last = NoSense
    /\ counter = NoFile
    /\ queue = <<>>
    /\ status_label = "Ready to start building your conlang!"
    /\ monitors = <<>>
    /\ builds = <<>>
    /\ gui = "idle"

\* launch_build_elemental with a language name and an output file: the status text,
\* start_monitoring_thread(), whose thread begins with sleep(2), then Popen
LaunchBuildElemental ==
    /\ prog = "gui" /\ gui = "idle" /\ Len(builds) < MaxBuilds
    /\ status_label' = "Started building, this may take a while.."
    /\ monitors' = Append(monitors, [at |-> "sleep", build |-> Len(builds) + 1])
    /\ builds' = Append(builds, Popen("elemental"))
    /\ UNCHANGED <<counter, queue, gui>>
    /\ UNCHANGED gen_vars

\* launch_build_words: the status text and open(".tmp.counter", "w")
OpenCounter ==
    /\ prog = "gui" /\ gui = "idle" /\ Len(builds) < MaxBuilds
    /\ status_label' = "Building Word Dictionary..."
    /\ counter' = [exists |-> TRUE, lines |-> <<>>]
    /\ gui' = "opened"
    /\ UNCHANGED <<queue, monitors, builds>>
    /\ UNCHANGED gen_vars

\* launch_build_words: f.write("0"), f.close(), Popen, and process.wait() begins
WriteCounter ==
    /\ prog = "gui" /\ gui = "opened"
    /\ counter' = [exists |-> TRUE, lines |-> <<"0">>]
    /\ builds' = Append(builds, Popen("words"))
    /\ gui' = "waiting"
    /\ UNCHANGED <<queue, status_label, monitors>>
    /\ UNCHANGED gen_vars

\* build_dictionary.py adds a line to .tmp.counter: a count, or "done" at its end
WordsBuildWrites ==
    /\ prog = "gui"
    /\ \E b \in DOMAIN builds : \E line \in {"1", "done"} :
        /\ builds[b].kind = "words" /\ builds[b].running /\ ~builds[b].wrote_done
        /\ Len(counter.lines) <= MaxLines
        /\ counter' = [exists |-> TRUE, lines |-> Append(counter.lines, line)]
        /\ builds' = [builds EXCEPT ![b].wrote_done = (line = "done")]
    /\ UNCHANGED <<queue, status_label, monitors, gui>>
    /\ UNCHANGED gen_vars

\* a build process ends
ProcessExits ==
    /\ prog = "gui"
    /\ \E b \in DOMAIN builds :
        /\ builds[b].running
        /\ builds' = [builds EXCEPT ![b].running = FALSE]
    /\ UNCHANGED <<counter, queue, status_label, monitors, gui>>
    /\ UNCHANGED gen_vars

\* launch_build_words: process.wait() returns, the notice and the status text
WaitReturns ==
    /\ prog = "gui" /\ gui = "waiting"
    /\ ~builds[Len(builds)].running
    /\ status_label' = "Built dictionary files"
    /\ gui' = "idle"
    /\ UNCHANGED <<counter, queue, monitors, builds>>
    /\ UNCHANGED gen_vars

\* monitor_counter_file: time.sleep(2) is over
MonitorWakes ==
    /\ prog = "gui"
    /\ \E m \in DOMAIN monitors :
        /\ monitors[m].at = "sleep"
        /\ monitors' = [monitors EXCEPT ![m].at = "poll"]
    /\ UNCHANGED <<counter, queue, status_label, builds, gui>>
    /\ UNCHANGED gen_vars

\* monitor_counter_file: one turn of the loop that finds .tmp.counter; without the
\* file the turn only sleeps
MonitorPolls ==
    /\ prog = "gui"
    /\ \E m \in DOMAIN monitors :
        /\ monitors[m].at = "poll"
        /\ counter.exists
        /\ Len(queue) < MaxQueue
        /\ IF last_line(counter) = "done"
           THEN /\ queue' = Append(queue, completion_msg)
                /\ monitors' = [monitors EXCEPT ![m].at = "ended"]
           ELSE /\ queue' = Append(queue, "Processing: " \o last_line(counter))
                /\ UNCHANGED monitors
    /\ UNCHANGED <<counter, status_label, builds, gui>>
    /\ UNCHANGED gen_vars

\* check_queue, run by the main loop: every message is taken, the label shows the latest
check_queue ==
    /\ prog = "gui" /\ gui = "idle"
    /\ queue # <<>>
    /\ status_label' = queue[Len(queue)]
    /\ queue' = <<>>
    /\ UNCHANGED <<counter, monitors, builds, gui>>
    /\ UNCHANGED gen_vars

NextGui ==
    \/ LaunchBuildElemental
    \/ OpenCounter \/ WriteCounter \/ WordsBuildWrites \/ ProcessExits \/ WaitReturns
    \/ MonitorWakes \/ MonitorPolls
    \/ check_queue

\* a session of the GUI: the GUI thread, the monitor threads and the build processes
SpecGui == InitGui /\ [][NextGui]_vars

\* monitor m puts its completion message on the queue in this step
ReportsCompletion(m) ==
    /\ m \in DOMAIN monitors
    /\ monitors[m].at = "poll"
    /\ monitors'[m].at = "ended"

\* C30: a monitor thread puts its completion message on the queue only after the build
\* it was started for has written "done" to .tmp.counter, whatever the interleaving of
\* the monitor threads, the GUI thread and the build processes
C30_CompletionOnlyAfterOwnDone ==
    [][ \A m \in DOMAIN monitors :
          ReportsCompletion(m) => builds[monitors[m].build].wrote_done ]_vars

====
